---- MODULE Spec2Model ----
(***************************************************************************)
(* A model of the gcore-usage report pipeline: the token cache             *)
(* (apps/core/auth.py), the upstream client and its poll loop              *)
(* (apps/core/gcore_client.py) and the report functions                    *)
(* (apps/api/routes.py).                                                   *)
(*                                                                         *)
(* Time is in seconds.  Coroutines are processes; every `await` of the     *)
(* source is a point where another process, or the clock, may step.        *)
(***************************************************************************)
EXTENDS Integers, Sequences, FiniteSets, TLC

VARIABLES
    now,            \* the clock read by time.time() and loop.time()
    credentials,    \* TokenManager's [username, password], taken from the
                    \* settings GCORE_USERNAME and GCORE_PASSWORD
    startup,        \* "pending", or how the start of apps/main.py ended:
                    \* "running" | "ValueError"
    tmAuthResp,     \* per process: the response get_token got to its POST
    cache,          \* TokenManager._token_cache: [token, expires_at]
    tmPc,           \* per process: position inside get_token
    tmCurrentTime,  \* per process: get_token's local current_time
    tmResult,       \* per process: what get_token returned or raised
    authCalls,      \* number of POSTs sent to the authentication endpoint
    tokensIssued,   \* number of tokens the authentication endpoint has issued
    cleared,        \* "no", or what the cache held when clear_cache() last ran
                    \* ("valid" | "expired" | "empty") while no refresh has
                    \* completed since
    upPc,           \* per process: position inside a GcoreClient upstream call
    upOp,           \* per process: which upstream call is in progress
    jobStatus,      \* per process: the status the upstream reports of the job
                    \* the process waits for
    pollPc,         \* per process: position inside wait_for_completion
    pollTimeout,    \* per process: wait_for_completion's timeout argument
    pollInterval,   \* per process: wait_for_completion's poll_interval argument
    pollStart,      \* per process: start_time
    pollCount,      \* per process: poll_count
    pollSleeps,     \* per process: number of asyncio.sleep(poll_interval) calls
    pollCheckedAt,  \* per process: the clock when the last status check returned
    pollStatusData, \* per process: status_data of the last status check
    pollStatus,     \* per process: current_status of the last status check
    pollResult,     \* per process: what wait_for_completion returned or raised
    settings,       \* config.settings: REPORT_POLL_TIMEOUT, REPORT_POLL_INTERVAL
    repPc,          \* per process: position inside a report function of routes.py
    repEndpoint,    \* per process: "none" | "cdn" | "waap" | "cloud" | "all"
    repFormat,      \* per process: final_format
    repIndex,       \* per process: index of the current product in `products`
    repOutcome,     \* per process: per product "pending" | "ok" | "failed"
    repFiltered,    \* per process: per product the `filtered` rows it produced
    repError,       \* per process: the exception that last left a pipeline stage
    allData,        \* per process: all_data
    totalCount,     \* per process: total_count
    repResult,      \* per process: the response returned or the exception raised
    repUuid,        \* per process: uuid, the job id start_report returned
    repFeaturesData,\* per process: features_data, what get_features returned
    repFeatures,    \* per process: product_features, the ids passed to start_report
    repLog,         \* per process: the upstream calls of the current product's
                    \* pipeline that are over, oldest first
    repParse,       \* per process: how download_report last chose its parser:
                    \* [format, content_type, mode]
    repRawData,     \* per process: raw_data, what download_report last returned
    dpIn,           \* the arguments of the DataProcessor call under study
    dpOut,          \* "none", or what that call returned or raised
    tmStale,        \* history, per process: clear_cache() ran while the
                    \* authentication POST of its get_token was in flight
    lookStatusData  \* per process: status_data, what check_status returned to
                    \* get_report_status, kept after the function is over

tmVars == <<credentials, startup, tmAuthResp, cache, tmPc, tmCurrentTime, tmResult, authCalls,
            tokensIssued, cleared>>

upVars == <<upPc, upOp, jobStatus>>

pollVars == <<pollPc, pollTimeout, pollInterval, pollStart, pollCount, pollSleeps,
              pollCheckedAt, pollStatusData, pollStatus, pollResult>>

repVars == <<settings, repPc, repEndpoint, repFormat, repIndex, repOutcome,
             repFiltered, repError, allData, totalCount, repResult, repUuid,
             repFeaturesData, repFeatures, repLog, repParse, repRawData>>

dpVars == <<dpIn, dpOut>>

histVars == <<tmStale, lookStatusData>>

vars == <<now, tmVars, upVars, pollVars, repVars, dpVars, histVars>>

(***************************************************************************)
(* Bounds of the model.                                                    *)
(***************************************************************************)
MaxTokTicks  == 5       \* clock ticks in the token-cache specification
MaxAuthCalls == 3       \* authentication POSTs in one behaviour
MaxPollTicks == 6       \* clock ticks in the poll-loop specification
MaxPolls     == 6       \* status checks of one wait_for_completion
MaxRepTicks  == 2       \* clock ticks in the report specification
MaxConcTicks == 3       \* clock ticks in the specification of concurrent polls
MaxRaceTicks == 2       \* clock ticks in the specification of racing refreshes

TokTickSteps == {30}    \* seconds per tick in the token-cache specification

Procs == {"p1", "p2"}   \* concurrent coroutines sharing token_manager

(***************************************************************************)
(* Program constants.                                                      *)
(***************************************************************************)
NoToken       == 0      \* _token_cache["token"] is None
SafetyMargin  == 60     \* the "+ 60" of the cache check
CacheDuration == 1800   \* TOKEN_CACHE_DURATION default

NoKey == -1             \* a key absent from a JSON mapping
NotANumber == -2        \* a JSON value that is no number: null or a string

EmptyCache == [token |-> NoToken, expires_at |-> 0]

(***************************************************************************)
(* Exceptions and results.                                                 *)
(* An exception is [kind, status, detail]; detail is the tuple of the       *)
(* pieces of the message.  get_token's result adds the token returned.     *)
(***************************************************************************)
HTTPException(status, detail) ==
    [kind |-> "HTTPException", status |-> status, detail |-> detail]

TransportError ==
    [kind |-> "httpx.TransportError", status |-> 0, detail |-> <<>>]

Raised(e) ==
    [kind |-> e.kind, status |-> e.status, detail |-> e.detail, token |-> NoToken]

Returned(token, log) ==
    [kind |-> "return", status |-> 0, detail |-> log, token |-> token]

NoResult == [kind |-> "none", status |-> 0, detail |-> <<>>, token |-> NoToken]

ExceptionOf(r) == [kind |-> r.kind, status |-> r.status, detail |-> r.detail]

(***************************************************************************)
(* What the authentication endpoint may answer.                            *)
(*   ok        : 2xx with a JSON body; access = NoToken when the body has  *)
(*               neither "access" nor "access_token"; expires_in = NoKey   *)
(*               when the body does not report a lifetime, NotANumber when *)
(*               it reports one that is null or a string                   *)
(*   status    : a non-2xx response (raise_for_status raises)              *)
(*   transport : connection error or the 30 s request timeout              *)
(***************************************************************************)
AuthLifetimes == {30, 90, NoKey}

NoAuthResponse ==
    [kind |-> "none", code |-> 0, hasToken |-> FALSE, expires_in |-> NoKey]

AuthResponses ==
    [kind : {"ok"}, code : {200}, hasToken : BOOLEAN, expires_in : AuthLifetimes]
    \cup [kind : {"status"}, code : {401, 500}, hasToken : {FALSE}, expires_in : {NoKey}]
    \cup [kind : {"transport"}, code : {0}, hasToken : {FALSE}, expires_in : {NoKey}]

(***************************************************************************)
(* TokenManager.get_token, the cache check.                                *)
(***************************************************************************)
CacheValid_NoMargin(c, current_time) ==
    c.token # NoToken /\ c.expires_at > current_time

CacheValid_NotStrict(c, current_time) ==
    c.token # NoToken /\ c.expires_at >= current_time + SafetyMargin

CacheValid_Stale(c, current_time) ==
    c.token # NoToken

CacheValid(c, current_time) ==
    c.token # NoToken /\ c.expires_at > current_time + SafetyMargin

(***************************************************************************)
(* get_token up to its first await: read the clock, serve from the cache,  *)
(* raise for missing credentials, or send the authentication POST.         *)
(***************************************************************************)
\* `not self.username or not self.password`
CredentialsMissing_Both(c) == c.username = "" /\ c.password = ""

CredentialsMissing(c) == c.username = "" \/ c.password = ""

TM_Call(p) ==
    /\ tmPc[p] = "idle"
    /\ tmCurrentTime' = [tmCurrentTime EXCEPT ![p] = now]
    /\ IF CacheValid(cache, now)
       THEN /\ tmPc' = [tmPc EXCEPT ![p] = "returned"]
            /\ tmResult' = [tmResult EXCEPT ![p] = Returned(cache.token, <<"Using cached Gcore token">>)]
            /\ UNCHANGED authCalls
       ELSE IF CredentialsMissing(credentials)
       THEN /\ tmPc' = [tmPc EXCEPT ![p] = "raised"]
            /\ tmResult' = [tmResult EXCEPT ![p] =
                   Raised(HTTPException(500, <<"Gcore credentials not configured">>))]
            /\ UNCHANGED authCalls
       ELSE /\ authCalls < MaxAuthCalls
            /\ tmPc' = [tmPc EXCEPT ![p] = "auth"]
            /\ authCalls' = authCalls + 1
            /\ UNCHANGED tmResult
    /\ UNCHANGED <<credentials, startup, tmAuthResp, cache, tokensIssued, cleared>>

(***************************************************************************)
(* The cache write of a successful refresh.                                *)
(***************************************************************************)
ExpiresIn(resp) ==
    IF resp.expires_in = NoKey THEN CacheDuration ELSE resp.expires_in

RefreshedCache_FromNow(token, current_time, resp) ==
    [token |-> token, expires_at |-> now + ExpiresIn(resp)]

RefreshedCache(token, current_time, resp) ==
    [token |-> token, expires_at |-> current_time + ExpiresIn(resp)]

(***************************************************************************)
(* What get_token raises when the POST does not yield a token: a 2xx body  *)
(* without a token raises inside the try block and is re-raised by the     *)
(* `except Exception` handler, as is a transport failure.                  *)
(***************************************************************************)
AuthFailure_Always502(resp) ==
    HTTPException(502, <<"Failed to authenticate with Gcore: ", "error">>)

AuthFailure(resp) ==
    IF resp.kind = "status" /\ resp.code = 401
    THEN HTTPException(401, <<"Invalid Gcore credentials">>)
    ELSE IF resp.kind = "status"
    THEN HTTPException(502, <<"Gcore auth failed: ", ToString(resp.code)>>)
    ELSE IF resp.kind = "ok" /\ resp.hasToken
    THEN HTTPException(502, <<"Failed to authenticate with Gcore: ",
                              "unsupported operand type(s) for +">>)
    ELSE IF resp.kind = "ok"
    THEN HTTPException(502, <<"Failed to authenticate with Gcore: ",
                              "Failed to get access token from Gcore auth API">>)
    ELSE HTTPException(502, <<"Failed to authenticate with Gcore: ", "transport">>)

(***************************************************************************)
(* get_token after the authentication POST completes with `resp`.  The     *)
(* token is stored before the expiry is computed: with a lifetime that is  *)
(* no number the sum raises TypeError after the token has been stored, and *)
(* the `except Exception` handler turns it into a 502.                     *)
(***************************************************************************)
TM_AuthResponse(p, resp) ==
    /\ tmPc[p] = "auth"
    /\ IF resp.kind = "ok" /\ resp.hasToken /\ resp.expires_in # NotANumber
       THEN /\ tokensIssued' = tokensIssued + 1
            /\ cache' = RefreshedCache(tokensIssued + 1, tmCurrentTime[p], resp)
            /\ tmPc' = [tmPc EXCEPT ![p] = "returned"]
            /\ tmResult' = [tmResult EXCEPT ![p] = 
                   Returned(tokensIssued + 1, <<"Successfully generated and cached Gcore token">>)]
       ELSE IF resp.kind = "ok" /\ resp.hasToken
       THEN /\ tokensIssued' = tokensIssued + 1
            /\ cache' = [cache EXCEPT !.token = tokensIssued + 1]
            /\ tmPc' = [tmPc EXCEPT ![p] = "raised"]
            /\ tmResult' = [tmResult EXCEPT ![p] = Raised(AuthFailure(resp))]
       ELSE /\ tmPc' = [tmPc EXCEPT ![p] = "raised"]
            /\ tmResult' = [tmResult EXCEPT ![p] =
                   Raised(AuthFailure(resp))]
            /\ UNCHANGED <<cache, tokensIssued>>
    /\ cleared' = "no"
    /\ tmAuthResp' = [tmAuthResp EXCEPT ![p] = resp]
    /\ UNCHANGED <<credentials, startup, tmCurrentTime, authCalls>>

(***************************************************************************)
(* The caller takes get_token's result; the coroutine frame is gone.       *)
(***************************************************************************)
TM_Done(p) ==
    /\ tmPc[p] \in {"returned", "raised"}
    /\ tmPc' = [tmPc EXCEPT ![p] = "idle"]
    /\ tmResult' = [tmResult EXCEPT ![p] = NoResult]
    /\ tmCurrentTime' = [tmCurrentTime EXCEPT ![p] = 0]
    /\ tmAuthResp' = [tmAuthResp EXCEPT ![p] = NoAuthResponse]
    /\ UNCHANGED <<credentials, startup, cache, authCalls, tokensIssued, cleared>>

(***************************************************************************)
(* TokenManager.clear_cache.                                               *)
(***************************************************************************)
ClearedCache_Unchanged(c) == c

ClearedCache(c) == EmptyCache

CacheContent ==
    IF cache.token = NoToken THEN "empty"
    ELSE IF CacheValid(cache, now) THEN "valid" ELSE "expired"

TM_ClearCache ==
    /\ cache' = ClearedCache(cache)
    /\ cleared' = CacheContent
    /\ UNCHANGED <<credentials, startup, tmAuthResp, tmPc, tmCurrentTime, tmResult,
                   authCalls, tokensIssued>>

(***************************************************************************)
(* Settings.validate, run once when apps/main.py is loaded.  routes.py,    *)
(* and with it the TokenManager, is imported before validate runs, so      *)
(* get_token does not depend on the outcome.                               *)
(***************************************************************************)
Validate(username, password) ==
    IF username = "" \/ password = "" THEN "ValueError" ELSE "running"

APP_Startup ==
    /\ startup = "pending"
    /\ startup' = Validate(credentials.username, credentials.password)
    /\ UNCHANGED <<credentials, tmAuthResp, cache, tmPc, tmCurrentTime, tmResult,
                   authCalls, tokensIssued, cleared>>

(***************************************************************************)
(* The clock.                                                              *)
(***************************************************************************)
Tick(d) == now' = now + d

(***************************************************************************)
(* Strings whose letters matter are tuples of characters; str.lower()      *)
(* maps each upper-case letter to its lower-case letter.                   *)
(***************************************************************************)
UpperLetters == <<"A", "B", "C", "D", "E", "F", "G", "H", "I", "J", "K", "L", "M", "N", "O", "P", "Q", "R", "S", "T", "U", "V", "W", "X", "Y", "Z">>
LowerLetters == <<"a", "b", "c", "d", "e", "f", "g", "h", "i", "j", "k", "l", "m", "n", "o", "p", "q", "r", "s", "t", "u", "v", "w", "x", "y", "z">>

UpperToLower ==
    [c \in {UpperLetters[i] : i \in 1..26} |->
        LowerLetters[CHOOSE i \in 1..26 : UpperLetters[i] = c]]

LowerChar(c) == IF c \in DOMAIN UpperToLower THEN UpperToLower[c] ELSE c

Lower_Identity(s) == s

Lower(s) == [i \in 1..Len(s) |-> LowerChar(s[i])]

S_pending == <<"p", "e", "n", "d", "i", "n", "g">>
S_inprogress == <<"i", "n", "p", "r", "o", "g", "r", "e", "s", "s">>
S_completed == <<"c", "o", "m", "p", "l", "e", "t", "e", "d">>
S_failed == <<"f", "a", "i", "l", "e", "d">>
S_error == <<"e", "r", "r", "o", "r">>
S_ready == <<"r", "e", "a", "d", "y">>
S_finished == <<"f", "i", "n", "i", "s", "h", "e", "d">>
S_done == <<"d", "o", "n", "e">>
S_success == <<"s", "u", "c", "c", "e", "s", "s">>
S_succeeded == <<"s", "u", "c", "c", "e", "e", "d", "e", "d">>
S_available == <<"a", "v", "a", "i", "l", "a", "b", "l", "e">>
S_complete == <<"c", "o", "m", "p", "l", "e", "t", "e">>
S_queued == <<"q", "u", "e", "u", "e", "d">>
S_COMPLETED == <<"C", "O", "M", "P", "L", "E", "T", "E", "D">>
S_Failed    == <<"F", "a", "i", "l", "e", "d">>
S_ERROR     == <<"E", "R", "R", "O", "R">>
S_empty     == <<>>

(***************************************************************************)
(* The status payloads the upstream may return: a JSON mapping with or     *)
(* without a "status" and a "message".                                     *)
(***************************************************************************)
StatusStrings ==
    {S_pending, S_inprogress, S_completed, S_failed, S_error, S_ready,
     S_finished, S_done, S_success, S_succeeded, S_available, S_complete,
     S_queued, S_COMPLETED, S_Failed, S_ERROR, S_empty}

UpstreamMessage == "quota exceeded"

StatusData(status) ==
    [hasStatus |-> TRUE, status |-> status, hasMessage |-> FALSE, message |-> ""]

NoStatusData ==
    [hasStatus |-> FALSE, status |-> <<>>, hasMessage |-> FALSE, message |-> ""]

StatusPayloads ==
    {StatusData(st) : st \in StatusStrings}
    \cup {NoStatusData}
    \cup {[StatusData(st) EXCEPT !.hasMessage = TRUE, !.message = UpstreamMessage] :
             st \in {S_failed, S_error, S_Failed}}

(***************************************************************************)
(* What an upstream endpoint may answer to a request of GcoreClient.       *)
(***************************************************************************)
StatusResponses ==
    [kind : {"ok"}, code : {200}, body : StatusPayloads]
    \cup [kind : {"status"}, code : {401, 500}, body : {NoStatusData}]
    \cup [kind : {"transport"}, code : {0}, body : {NoStatusData}]

(***************************************************************************)
(* The shape shared by get_features, start_report, check_status and        *)
(* download_report: await get_token, then await the HTTP request.  There   *)
(* is no await between get_token's return and the request, so the request  *)
(* is in flight exactly while the call holds a returned token.             *)
(*   UP_Begin    : the call up to get_token's first await                  *)
(*   UP_Auth     : get_token's authentication POST completes               *)
(*   UP_Raise    : get_token's exception leaves the call                   *)
(*   UP_Response : the HTTP response arrives and the call is over          *)
(***************************************************************************)
UP_Begin(p, op) ==
    /\ upPc[p] = "idle"
    /\ TM_Call(p)
    /\ upPc' = [upPc EXCEPT ![p] = "busy"]
    /\ upOp' = [upOp EXCEPT ![p] = op]
    /\ UNCHANGED jobStatus

UP_Auth(p, resp) ==
    /\ upPc[p] = "busy"
    /\ TM_AuthResponse(p, resp)
    /\ UNCHANGED upVars

UP_Raise(p) ==
    /\ upPc[p] = "busy"
    /\ tmPc[p] = "raised"
    /\ TM_Done(p)
    /\ upPc' = [upPc EXCEPT ![p] = "idle"]
    /\ upOp' = [upOp EXCEPT ![p] = "none"]
    /\ UNCHANGED jobStatus

UP_Response(p) ==
    /\ upPc[p] = "busy"
    /\ tmPc[p] = "returned"
    /\ TM_Done(p)
    /\ upPc' = [upPc EXCEPT ![p] = "idle"]
    /\ upOp' = [upOp EXCEPT ![p] = "none"]
    /\ UNCHANGED jobStatus

\* The `except httpx.HTTPStatusError` handler of the four calls; any other
\* httpx error is not caught.
UpstreamFailure(what, resp) ==
    IF resp.kind = "status"
    THEN HTTPException(502, <<what, ToString(resp.code)>>)
    ELSE TransportError

UPInit ==
    /\ upPc = [p \in Procs |-> "idle"]
    /\ upOp = [p \in Procs |-> "none"]
    /\ jobStatus = [p \in Procs |-> S_pending]

(***************************************************************************)
(* GcoreClient.wait_for_completion.                                        *)
(***************************************************************************)
PollReturn(status) == [kind |-> "return", status |-> 0, detail |-> <<status>>]

NoPollResult == [kind |-> "none", status |-> 0, detail |-> <<>>]

\* status_data.get("status", "")
StatusOf(status_data) ==
    IF status_data.hasStatus THEN status_data.status ELSE S_empty

\* current_status = status_data.get("status", "").lower()
CurrentStatus(status_data) == Lower(StatusOf(status_data))

\* The if / elif chain on current_status.
PollBranch(current_status) ==
    IF current_status = S_completed THEN "completed"
    ELSE IF current_status = S_failed THEN "failed"
    ELSE IF current_status \in {S_inprogress, S_pending} THEN "waiting"
    ELSE "unknown"

\* elapsed = loop.time() - start_time
Elapsed_SinceEpoch(start_time) == now

Elapsed(start_time) == now - start_time

\* A variant that looks at the clock before it looks at the status.
PollOutcome_TimeoutFirst(p, status_data) ==
    LET branch == PollBranch(CurrentStatus(status_data)) IN
    IF Elapsed(pollStart[p]) > pollTimeout[p]
    THEN HTTPException(504, <<"Report generation timed out after ",
                              ToString(pollTimeout[p]), "s">>)
    ELSE IF branch = "completed" THEN PollReturn("completed")
    ELSE IF branch = "failed"
    THEN HTTPException(502, <<"Report generation failed">>)
    ELSE NoPollResult

\* The outcome of one pass of the loop body after check_status returned
\* status_data: return, raise, or sleep.
PollOutcome(p, status_data) ==
    LET branch == PollBranch(CurrentStatus(status_data)) IN
    IF branch = "completed" THEN PollReturn("completed")
    ELSE IF branch = "failed"
    THEN HTTPException(502, <<"Report generation failed">>)
    ELSE IF branch = "waiting" /\ Elapsed(pollStart[p]) > pollTimeout[p]
    THEN HTTPException(504, <<"Report generation timed out after ",
                              ToString(pollTimeout[p]), "s">>)
    ELSE NoPollResult

WFCInit ==
    /\ pollPc = [p \in Procs |-> "idle"]
    /\ pollTimeout = [p \in Procs |-> 0]
    /\ pollInterval = [p \in Procs |-> 0]
    /\ pollStart = [p \in Procs |-> 0]
    /\ pollCount = [p \in Procs |-> 0]
    /\ pollSleeps = [p \in Procs |-> 0]
    /\ pollCheckedAt = [p \in Procs |-> 0]
    /\ pollStatusData = [p \in Procs |-> NoStatusData]
    /\ pollStatus = [p \in Procs |-> S_empty]
    /\ pollResult = [p \in Procs |-> NoPollResult]

\* The call up to its first await: start_time and poll_count are set and the
\* first pass of the loop calls check_status.
WFC_Enter(p, timeout, poll_interval) ==
    /\ pollPc[p] = "idle"
    /\ pollPc' = [pollPc EXCEPT ![p] = "checking"]
    /\ pollTimeout' = [pollTimeout EXCEPT ![p] = timeout]
    /\ pollInterval' = [pollInterval EXCEPT ![p] = poll_interval]
    /\ pollStart' = [pollStart EXCEPT ![p] = now]
    /\ pollCount' = [pollCount EXCEPT ![p] = 1]
    /\ pollSleeps' = [pollSleeps EXCEPT ![p] = 0]
    /\ pollResult' = [pollResult EXCEPT ![p] = NoPollResult]
    /\ UP_Begin(p, "status")
    /\ UNCHANGED <<pollCheckedAt, pollStatusData, pollStatus>>

\* A sleep that would hold the event loop: no coroutine resumes while
\* another one sleeps.
SleepOver_Blocking(p) ==
    /\ now >= pollCheckedAt[p] + pollInterval[p]
    /\ \A q \in Procs \ {p} : pollPc[q] # "sleeping"

\* await asyncio.sleep(poll_interval) resumes the coroutine once the
\* interval has passed, whatever the other coroutines do.
SleepOver(p) == now >= pollCheckedAt[p] + pollInterval[p]

\* asyncio.sleep(poll_interval) is over: the next pass of the loop,
\* poll_count += 1 and check_status is called.
WFC_Check(p) ==
    /\ pollPc[p] = "sleeping"
    /\ SleepOver(p)
    /\ pollCount[p] < MaxPolls
    /\ pollCount' = [pollCount EXCEPT ![p] = pollCount[p] + 1]
    /\ pollPc' = [pollPc EXCEPT ![p] = "checking"]
    /\ UP_Begin(p, "status")
    /\ UNCHANGED <<pollTimeout, pollInterval, pollStart, pollSleeps,
                   pollCheckedAt, pollStatusData, pollStatus, pollResult>>

\* check_status is inside get_token, whose authentication POST completes.
WFC_CheckAuth(p, resp) ==
    /\ pollPc[p] = "checking"
    /\ UP_Auth(p, resp)
    /\ UNCHANGED pollVars

\* get_token's exception leaves check_status and wait_for_completion.
WFC_CheckRaise(p) ==
    /\ pollPc[p] = "checking"
    /\ UP_Raise(p)
    /\ pollPc' = [pollPc EXCEPT ![p] = "done"]
    /\ pollResult' = [pollResult EXCEPT ![p] = ExceptionOf(tmResult[p])]
    /\ UNCHANGED <<pollTimeout, pollInterval, pollStart, pollCount, pollSleeps,
                   pollCheckedAt, pollStatusData, pollStatus>>

\* The status GET completes and the loop body runs to its return, raise or
\* asyncio.sleep.
WFC_CheckResponse(p, resp) ==
    /\ pollPc[p] = "checking"
    /\ UP_Response(p)
    /\ pollCheckedAt' = [pollCheckedAt EXCEPT ![p] = now]
    /\ IF resp.kind # "ok"
       THEN /\ pollPc' = [pollPc EXCEPT ![p] = "done"]
            /\ pollResult' = [pollResult EXCEPT ![p] =
                   UpstreamFailure("Failed to check status: ", resp)]
            /\ UNCHANGED <<pollStatusData, pollStatus, pollSleeps>>
       ELSE LET outcome == PollOutcome(p, resp.body) IN
            /\ pollStatusData' = [pollStatusData EXCEPT ![p] = resp.body]
            /\ pollStatus' = [pollStatus EXCEPT ![p] = CurrentStatus(resp.body)]
            /\ IF outcome = NoPollResult
               THEN /\ pollPc' = [pollPc EXCEPT ![p] = "sleeping"]
                    /\ pollSleeps' = [pollSleeps EXCEPT ![p] = pollSleeps[p] + 1]
                    /\ UNCHANGED pollResult
               ELSE /\ pollPc' = [pollPc EXCEPT ![p] = "done"]
                    /\ pollResult' = [pollResult EXCEPT ![p] = outcome]
                    /\ UNCHANGED pollSleeps
    /\ UNCHANGED <<pollTimeout, pollInterval, pollStart, pollCount>>

(***************************************************************************)
(* GcoreClient.get_features_for_product.                                   *)
(* A feature is a JSON object with up to three name fields (<<>>: absent   *)
(* or empty) and an id, which is an integer, a string or absent.           *)
(***************************************************************************)
LowerToUpper ==
    [c \in {LowerLetters[i] : i \in 1..26} |->
        UpperLetters[CHOOSE i \in 1..26 : LowerLetters[i] = c]]

UpperChar(c) == IF c \in DOMAIN LowerToUpper THEN LowerToUpper[c] ELSE c

\* str.upper()
Upper(s) == [i \in 1..Len(s) |-> UpperChar(s[i])]

\* str.strip()
Strip(s) ==
    LET inked == {i \in 1..Len(s) : s[i] # " "} IN
    IF inked = {} THEN <<>>
    ELSE SubSeq(s, CHOOSE i \in inked : \A j \in inked : i <= j,
                   CHOOSE i \in inked : \A j \in inked : i >= j)

IntId(n) == [type |-> "int", val |-> n]

StrId(n) == [type |-> "str", val |-> n]

NoId == [type |-> "none", val |-> 0]

\* isinstance(fid, int)
IsInt(id) == id.type = "int"

\* The truth value of f.get("id"): None and 0 are false.
Truthy(id) == id.type = "str" \/ (id.type = "int" /\ id.val # 0)

Feature(product_name_en, productNameEn, product, id) ==
    [product_name_en |-> product_name_en, productNameEn |-> productNameEn,
     product |-> product, id |-> id]

\* (feature.get("product_name_en") or feature.get("productNameEn") or
\*  feature.get("product") or "").strip().upper()
PName(feature) ==
    Upper(Strip(IF feature.product_name_en # <<>> THEN feature.product_name_en
                ELSE IF feature.productNameEn # <<>> THEN feature.productNameEn
                ELSE feature.product))

Ids(features) == [i \in 1..Len(features) |-> features[i].id]

\* The loop over features_data: the integer ids of the features whose name
\* is the product's.
MatchingIds(features_data, product_name) ==
    Ids(SelectSeq(features_data,
                  LAMBDA f : PName(f) = Upper(product_name) /\ IsInt(f.id)))

FallbackLimit == 10

\* [f.get("id") for f in features_data[:10] if f.get("id")]
FallbackIds(features_data) ==
    Ids(SelectSeq(SubSeq(features_data, 1,
                         IF Len(features_data) < FallbackLimit
                         THEN Len(features_data) ELSE FallbackLimit),
                  LAMBDA f : Truthy(f.id)))

FeaturesForProduct(features_data, product_name) ==
    IF MatchingIds(features_data, product_name) # <<>>
    THEN MatchingIds(features_data, product_name)
    ELSE FallbackIds(features_data)

\* The product names of the endpoints, as characters.
N_CDN   == <<"C", "D", "N">>
N_WAAP  == <<"W", "A", "A", "P">>
N_Cloud == <<"C", "l", "o", "u", "d">>
N_cdn_padded == <<" ", "c", "d", "n", " ">>
N_Other == <<"D", "N", "S">>

ProductChars(product) ==
    IF product = "CDN" THEN N_CDN ELSE IF product = "WAAP" THEN N_WAAP ELSE N_Cloud

\* Feature lists the upstream may return.
FeatureSamples ==
    {Feature(N_CDN, <<>>, <<>>, IntId(1)),
     Feature(<<>>, N_cdn_padded, <<>>, IntId(2)),
     Feature(<<>>, <<>>, N_WAAP, StrId(3)),
     Feature(N_Cloud, <<>>, <<>>, NoId),
     Feature(<<>>, <<>>, <<>>, IntId(0)),
     Feature(N_Other, <<>>, <<>>, IntId(5))}

ManyFeatures == [i \in 1..(FallbackLimit + 1) |-> Feature(N_Other, <<>>, <<>>, IntId(i))]

FeatureLists ==
    {<<>>, ManyFeatures}
    \cup {<<f>> : f \in FeatureSamples}
    \cup {<<f, g>> : f \in FeatureSamples, g \in FeatureSamples}

\* The body of a 2xx features response: a JSON list, or null.
FeaturesBody(list) == [isNull |-> FALSE, list |-> list]

NullBody == [isNull |-> TRUE, list |-> <<>>]

\* features_data[:10] on None.
TypeError == [kind |-> "TypeError", status |-> 0, detail |-> <<>>]

(***************************************************************************)
(* GcoreClient.download_report: how the response is parsed.                *)
(* Content types are tuples of characters.                                 *)
(***************************************************************************)
\* `needle in s` for strings.
Contains(s, needle) ==
    \E i \in 1..(Len(s) - Len(needle) + 1) : SubSeq(s, i, i + Len(needle) - 1) = needle

\* Content types a download response may declare; T_none: no header.
T_json ==
    <<"a", "p", "p", "l", "i", "c", "a", "t", "i", "o", "n", "/", "j", "s",
      "o", "n">>

T_csv ==
    <<"t", "e", "x", "t", "/", "c", "s", "v">>

T_CSV_charset ==
    <<"T", "e", "x", "t", "/", "C", "S", "V", ";", " ", "c", "h", "a", "r",
      "s", "e", "t", "=", "u", "t", "f", "-", "8">>

T_xlsx ==
    <<"a", "p", "p", "l", "i", "c", "a", "t", "i", "o", "n", "/", "v", "n",
      "d", ".", "o", "p", "e", "n", "x", "m", "l", "f", "o", "r", "m", "a",
      "t", "s", "-", "o", "f", "f", "i", "c", "e", "d", "o", "c", "u", "m",
      "e", "n", "t", ".", "s", "p", "r", "e", "a", "d", "s", "h", "e", "e",
      "t", "m", "l", ".", "s", "h", "e", "e", "t">>

T_none == <<>>

ContentTypes == {T_json, T_csv, T_CSV_charset, T_xlsx, T_none}

\* The literals "text/csv" and "spreadsheetml" of the parse test.
L_text_csv ==
    <<"t", "e", "x", "t", "/", "c", "s", "v">>

L_spreadsheetml ==
    <<"s", "p", "r", "e", "a", "d", "s", "h", "e", "e", "t", "m", "l">>

\* content_type = (response.headers.get("content-type") or "").lower()
DeclaredType(resp) == Lower(resp.content_type)

\* The if / elif / else that picks the parser.
ParseMode(format, content_type) ==
    IF format = "csv" \/ Contains(content_type, L_text_csv) THEN "csv"
    ELSE IF format = "excel" \/ Contains(content_type, L_spreadsheetml) THEN "excel"
    ELSE "json"

\* Payloads: `body` says how the payload is really encoded, `records` are
\* the records it encodes, `size_bytes` its length, `misread` the rows that
\* csv.DictReader makes of it when it is not CSV, and `filtered` the rows of
\* `records` that the client and metric filter keeps.
RecordSeqs == {<<>>, <<"row1">>, <<"row1", "row2">>}

Bodies == {"json", "csv", "xlsx"}

Payloads ==
    {pl \in [body : Bodies, records : RecordSeqs, filtered : RecordSeqs,
             size_bytes : {0, 120}, misread : {<<>>, <<"junk">>}] :
        /\ Len(pl.filtered) <= Len(pl.records)
        /\ pl.filtered = SubSeq(pl.records, 1, Len(pl.filtered))
        /\ pl.records # <<>> => pl.size_bytes # 0
        /\ pl.body = "csv" => pl.misread = <<>>}

\* raw_data, what download_report returns: a list of rows (shape "rows"),
\* the base64 wrapper dict (shape "excel") or the parsed JSON (shape "json").
RawData(shape, content_type, rows, size_bytes) ==
    [shape |-> shape, content_type |-> content_type, rows |-> rows,
     size_bytes |-> size_bytes]

NoRawData == RawData("none", T_none, <<>>, 0)

NoParse == [format |-> "none", content_type |-> T_none, mode |-> "none"]

JSONDecodeError == [kind |-> "JSONDecodeError", status |-> 0, detail |-> <<>>]

\* Whether the chosen parser raises on the payload: only response.json() and
\* json.loads do.
ParseRaises(format, resp) ==
    ParseMode(format, DeclaredType(resp)) = "json" /\ resp.payload.body # "json"

Parsed(format, resp) ==
    LET mode == ParseMode(format, DeclaredType(resp)) IN
    IF mode = "csv"
    THEN RawData("rows", DeclaredType(resp),
                 IF resp.payload.body = "csv" THEN resp.payload.records
                 ELSE resp.payload.misread,
                 resp.payload.size_bytes)
    ELSE IF mode = "excel"
    THEN RawData("excel", DeclaredType(resp), resp.payload.records,
                 resp.payload.size_bytes)
    ELSE RawData("json", DeclaredType(resp), resp.payload.records,
                 resp.payload.size_bytes)

\* data_processor.normalize_rows(raw_data): a list of rows is returned as it
\* is, the base64 wrapper has no rows.
NormalizeRows(raw_data) == IF raw_data.shape = "excel" THEN <<>> ELSE raw_data.rows

\* data_processor.filter_by_client_and_metric(rows, gcore_user_id)
FilterRows(rows, payload) == IF rows = payload.records THEN payload.filtered ELSE <<>>

\* download_format = "csv" if final_format == "excel" else final_format
DownloadFormat(final_format) == IF final_format = "excel" THEN "csv" ELSE final_format

(***************************************************************************)
(* The report functions of apps/api/routes.py.  Both                       *)
(* _generate_report_for_product and generate_all_reports run, per product, *)
(* the stages features, start, wait, download and processing; they differ  *)
(* in what happens to an exception and to the filtered rows.               *)
(***************************************************************************)
Endpoints == {"cdn", "waap", "cloud", "all"}

Formats == {"json", "csv", "excel"}

\* `products` of generate_all_reports, or the product of a single endpoint.
Products(endpoint) ==
    IF endpoint = "all" THEN <<"CDN", "WAAP", "Cloud">>
    ELSE IF endpoint = "cdn" THEN <<"CDN">>
    ELSE IF endpoint = "waap" THEN <<"WAAP">>
    ELSE <<"Cloud">>

\* What the upstream may answer to the features, start and download requests.
FeaturesResponses ==
    [kind : {"ok"}, code : {200},
     body : {NullBody} \cup {FeaturesBody(l) : l \in FeatureLists}]
    \cup [kind : {"status"}, code : {401, 500}, body : {NullBody}]
    \cup [kind : {"transport"}, code : {0}, body : {NullBody}]

NoUuid == "none"

JobIds == {"job1", "job2"}

StartResponses ==
    [kind : {"ok"}, code : {200}, hasUuid : {TRUE}, uuid : JobIds]
    \cup [kind : {"ok"}, code : {200}, hasUuid : {FALSE}, uuid : {NoUuid}]
    \cup [kind : {"status"}, code : {401, 500}, hasUuid : {FALSE}, uuid : {NoUuid}]
    \cup [kind : {"transport"}, code : {0}, hasUuid : {FALSE}, uuid : {NoUuid}]

\* A 2xx download declares a content type and carries a payload.
NoPayload ==
    [body |-> "json", records |-> <<>>, filtered |-> <<>>, size_bytes |-> 0,
     misread |-> <<>>]

DownloadResponses ==
    [kind : {"ok"}, code : {200}, content_type : ContentTypes, payload : Payloads]
    \cup [kind : {"status"}, code : {401, 500}, content_type : {T_none},
          payload : {NoPayload}]
    \cup [kind : {"transport"}, code : {0}, content_type : {T_none},
          payload : {NoPayload}]

NoError == [kind |-> "none", status |-> 0, detail |-> <<>>]

NoResponse == [kind |-> "none"]

ReportResponse(uuid, status, count, rows, format) ==
    [kind |-> "return", uuid |-> uuid, reportStatus |-> status, count |-> count,
     rows |-> rows, format |-> format]

\* for row in filtered: row["Product"] = product
WithProduct(filtered, product) ==
    [i \in 1..Len(filtered) |-> [row |-> filtered[i], Product |-> product]]

\* A row that csv.DictReader made of a line with more cells than the header:
\* it holds the surplus cells under the key None.  It stands after the first
\* five rows of its payload, the ones the filter samples for its columns.
RestRow == "row6"

\* to_csv(rows) raises TypeError: sorted(all_keys) compares the key None of a
\* row with the string keys.
ToCsvRaises(rows) == \E i \in DOMAIN rows : rows[i] = RestRow

L_not_supported == "'<' not supported between instances of 'str' and 'NoneType'"

\* The response of _generate_report_for_product after the download was
\* filtered: excel and csv convert the rows with to_csv, json cleans them.
SingleResponse(filtered, final_format) ==
    IF final_format \in {"excel", "csv"} /\ ToCsvRaises(filtered)
    THEN HTTPException(500, <<"Failed to generate report: ", L_not_supported>>)
    ELSE ReportResponse("uuid", "completed", Len(filtered), filtered, final_format)

\* The response of generate_all_reports after the last product, the same
\* conversions over all_data; an exception here meets the outer handler.
AggregateResponse(rows, count, final_format) ==
    IF final_format \in {"excel", "csv"}
       /\ ToCsvRaises([i \in DOMAIN rows |-> rows[i].row])
    THEN HTTPException(500, <<"Error generating aggregated report: ",
                              L_not_supported>>)
    ELSE ReportResponse("aggregated", "completed", count, rows, final_format)

\* The except clause around one product's stages: generate_all_reports logs
\* and continues with the next product, _generate_report_for_product raises
\* HTTPException(500).
OnStageException_Raise(endpoint) == "raise"

OnStageException(endpoint) == IF endpoint = "all" THEN "continue" ELSE "raise"

REPInit ==
    /\ settings \in [REPORT_POLL_TIMEOUT : {0}, REPORT_POLL_INTERVAL : {10}]
    /\ repPc = [p \in Procs |-> "idle"]
    /\ repEndpoint = [p \in Procs |-> "none"]
    /\ repFormat = [p \in Procs |-> "json"]
    /\ repIndex = [p \in Procs |-> 1]
    /\ repOutcome = [p \in Procs |-> <<>>]
    /\ repFiltered = [p \in Procs |-> <<>>]
    /\ repError = [p \in Procs |-> NoError]
    /\ allData = [p \in Procs |-> <<>>]
    /\ totalCount = [p \in Procs |-> 0]
    /\ repResult = [p \in Procs |-> NoResponse]
    /\ repUuid = [p \in Procs |-> NoUuid]
    /\ repFeaturesData = [p \in Procs |-> NullBody]
    /\ repFeatures = [p \in Procs |-> <<>>]
    /\ repLog = [p \in Procs |-> <<>>]
    /\ repParse = [p \in Procs |-> NoParse]
    /\ repRawData = [p \in Procs |-> NoRawData]
    /\ lookStatusData = [p \in Procs |-> NoStatusData]

\* The request arrives: final_format is settled and the first product's
\* stages begin.
REP_Request(p, endpoint, final_format) ==
    /\ repPc[p] = "idle"
    /\ repPc' = [repPc EXCEPT ![p] = "features"]
    /\ repEndpoint' = [repEndpoint EXCEPT ![p] = endpoint]
    /\ repFormat' = [repFormat EXCEPT ![p] = final_format]
    /\ repIndex' = [repIndex EXCEPT ![p] = 1]
    /\ repOutcome' = [repOutcome EXCEPT ![p] =
           [i \in 1..Len(Products(endpoint)) |-> "pending"]]
    /\ repFiltered' = [repFiltered EXCEPT ![p] =
           [i \in 1..Len(Products(endpoint)) |-> <<>>]]
    /\ repUuid' = [repUuid EXCEPT ![p] = NoUuid]
    /\ repLog' = [repLog EXCEPT ![p] = <<>>]
    /\ UNCHANGED <<settings, repError, allData, totalCount, repResult,
                   repFeaturesData, repFeatures,
                   repParse, repRawData>>

\* The function is over after product repIndex[p], with all_data `rows` and
\* total_count `count`: the next product, or the response.
REP_Advance(p, rows, count) ==
    /\ allData' = [allData EXCEPT ![p] = rows]
    /\ totalCount' = [totalCount EXCEPT ![p] = count]
    /\ IF repIndex[p] < Len(Products(repEndpoint[p]))
       THEN /\ repIndex' = [repIndex EXCEPT ![p] = repIndex[p] + 1]
            /\ repPc' = [repPc EXCEPT ![p] = "features"]
            /\ UNCHANGED repResult
       ELSE /\ repPc' = [repPc EXCEPT ![p] = "done"]
            /\ repResult' = [repResult EXCEPT ![p] =
                   AggregateResponse(rows, count, repFormat[p])]
            /\ UNCHANGED repIndex

\* A handler that would run the stage again.
REP_Fail_Retry(p, e) ==
    /\ repError' = [repError EXCEPT ![p] = e]
    /\ UNCHANGED <<settings, repPc, repEndpoint, repFormat, repIndex, repOutcome,
                   repFiltered, allData, totalCount, repResult>>

\* Exception e leaves a stage of the current product.
REP_Fail(p, e) ==
    /\ repError' = [repError EXCEPT ![p] = e]
    /\ repOutcome' = [repOutcome EXCEPT ![p][repIndex[p]] = "failed"]
    /\ IF OnStageException(repEndpoint[p]) = "continue"
       THEN REP_Advance(p, allData[p], totalCount[p])
       ELSE /\ repPc' = [repPc EXCEPT ![p] = "done"]
            /\ repResult' = [repResult EXCEPT ![p] =
                   HTTPException(500, <<"Failed to generate report: ">> \o e.detail)]
            /\ UNCHANGED <<repIndex, allData, totalCount>>
    /\ UNCHANGED <<settings, repEndpoint, repFormat, repFiltered>>

\* The current product's rows are downloaded and filtered.
REP_Succeed(p, filtered) ==
    /\ repOutcome' = [repOutcome EXCEPT ![p][repIndex[p]] = "ok"]
    /\ repFiltered' = [repFiltered EXCEPT ![p][repIndex[p]] = filtered]
    /\ IF repEndpoint[p] = "all"
       THEN REP_Advance(p,
                allData[p] \o WithProduct(filtered, Products("all")[repIndex[p]]),
                totalCount[p] + Len(filtered))
       ELSE /\ repPc' = [repPc EXCEPT ![p] = "done"]
            /\ repResult' = [repResult EXCEPT ![p] =
                   SingleResponse(filtered, repFormat[p])]
            /\ UNCHANGED <<repIndex, allData, totalCount>>
    /\ UNCHANGED <<settings, repEndpoint, repFormat, repError>>

\* One upstream call of product repIndex[p] that is over: the operation, the
\* job id it was made for (for start_report: the one it returned), the response it got (kind "none": get_token raised
\* and no request was sent), the exception that left the call (NoError: it
\* returned) and, for a status check, the branch its status selected.
CallOver(p, op, uuid, kind, code, exc, branch) ==
    [product |-> repIndex[p], op |-> op, uuid |-> uuid, kind |-> kind,
     code |-> code, exc |-> exc, branch |-> branch]

Logged(p, call) == repLog' = [repLog EXCEPT ![p] = Append(repLog[p], call)]

\* The stage after `stage` when it returned.
NextStage_SkipWait(stage) ==
    IF stage = "features" THEN "start"
    ELSE IF stage = "start" THEN "download"
    ELSE "done"

NextStage(stage) ==
    IF stage = "features" THEN "start"
    ELSE IF stage = "start" THEN "wait"
    ELSE IF stage = "wait" THEN "download"
    ELSE "done"

\* The job id a stage's call is made for.
UuidOf(p, stage) == IF stage \in {"wait", "download"} THEN repUuid[p] ELSE NoUuid

UpstreamStages == {"features", "start", "download"}

\* get_features, start_report or download_report is called.
REP_Begin(p) ==
    /\ repPc[p] \in UpstreamStages
    /\ UP_Begin(p, repPc[p])
    /\ repLog' = [repLog EXCEPT ![p] = IF repPc[p] = "features" THEN <<>> ELSE @]
    /\ UNCHANGED <<settings, repPc, repEndpoint, repFormat, repIndex, repOutcome,
                   repFiltered, repError, allData, totalCount, repResult, repUuid,
                   repFeaturesData, repFeatures,
                   repParse, repRawData>>
    /\ UNCHANGED pollVars

\* The call is inside get_token, whose authentication POST completes.
REP_Auth(p, resp) ==
    /\ repPc[p] \in UpstreamStages
    /\ UP_Auth(p, resp)
    /\ UNCHANGED <<pollVars, repVars>>

\* get_token's exception leaves the call.
REP_Raise(p) ==
    /\ repPc[p] \in UpstreamStages
    /\ UP_Raise(p)
    /\ REP_Fail(p, ExceptionOf(tmResult[p]))
    /\ Logged(p, CallOver(p, repPc[p], UuidOf(p, repPc[p]), "none", 0,
                          ExceptionOf(tmResult[p]), ""))
    /\ UNCHANGED <<repUuid, repFeaturesData, repFeatures, repParse, repRawData,
                   pollVars>>

\* get_features_for_product returns the feature ids, or get_features raises.
REP_FeaturesResponse(p, resp) ==
    /\ repPc[p] = "features"
    /\ UP_Response(p)
    /\ IF resp.kind = "ok" /\ ~resp.body.isNull
       THEN /\ repPc' = [repPc EXCEPT ![p] = NextStage("features")]
            /\ repFeaturesData' = [repFeaturesData EXCEPT ![p] = resp.body]
            /\ repFeatures' = [repFeatures EXCEPT ![p] =
                   FeaturesForProduct(resp.body.list,
                       ProductChars(Products(repEndpoint[p])[repIndex[p]]))]
            /\ UNCHANGED <<settings, repEndpoint, repFormat, repIndex, repOutcome,
                           repFiltered, repError, allData, totalCount, repResult>>
            /\ Logged(p, CallOver(p, "features", NoUuid, resp.kind, resp.code,
                                  NoError, ""))
       ELSE IF resp.kind = "ok"
       THEN /\ REP_Fail(p, TypeError)
            /\ Logged(p, CallOver(p, "features", NoUuid, resp.kind, resp.code,
                                  TypeError, ""))
            /\ UNCHANGED <<repFeaturesData, repFeatures>>
       ELSE /\ REP_Fail(p, UpstreamFailure("Failed to get features: ", resp))
            /\ Logged(p, CallOver(p, "features", NoUuid, resp.kind, resp.code,
                                  UpstreamFailure("Failed to get features: ", resp), ""))
            /\ UNCHANGED <<repFeaturesData, repFeatures>>
    /\ UNCHANGED <<repUuid, repParse, repRawData, pollVars>>

\* start_report returns the uuid, or raises.
REP_StartResponse(p, resp) ==
    /\ repPc[p] = "start"
    /\ UP_Response(p)
    /\ IF resp.kind = "ok" /\ resp.hasUuid
       THEN /\ repPc' = [repPc EXCEPT ![p] = NextStage("start")]
            /\ repUuid' = [repUuid EXCEPT ![p] = resp.uuid]
            /\ UNCHANGED <<settings, repEndpoint, repFormat, repIndex, repOutcome,
                           repFiltered, repError, allData, totalCount, repResult>>
            /\ Logged(p, CallOver(p, "start", resp.uuid, resp.kind, resp.code,
                                  NoError, ""))
       ELSE IF resp.kind = "ok"
       THEN /\ REP_Fail(p, HTTPException(502, <<"No UUID returned from report generation">>))
            /\ Logged(p, CallOver(p, "start", NoUuid, resp.kind, resp.code,
                   HTTPException(502, <<"No UUID returned from report generation">>), ""))
            /\ UNCHANGED repUuid
       ELSE /\ REP_Fail(p, UpstreamFailure("Failed to start report: ", resp))
            /\ Logged(p, CallOver(p, "start", NoUuid, resp.kind, resp.code,
                                  UpstreamFailure("Failed to start report: ", resp), ""))
            /\ UNCHANGED repUuid
    /\ UNCHANGED <<repFeaturesData, repFeatures, repParse, repRawData,
                   pollVars>>

\* wait_for_completion is called with the configured timeout and interval.
REP_WaitEnter(p) ==
    /\ repPc[p] = "wait"
    /\ WFC_Enter(p, settings.REPORT_POLL_TIMEOUT, settings.REPORT_POLL_INTERVAL)
    /\ UNCHANGED repVars

REP_WaitCheck(p) ==
    /\ repPc[p] = "wait"
    /\ WFC_Check(p)
    /\ UNCHANGED repVars

REP_WaitCheckAuth(p, resp) ==
    /\ repPc[p] = "wait"
    /\ WFC_CheckAuth(p, resp)
    /\ UNCHANGED repVars

REP_WaitCheckRaise(p) ==
    /\ repPc[p] = "wait"
    /\ WFC_CheckRaise(p)
    /\ Logged(p, CallOver(p, "status", repUuid[p], "none", 0,
                          ExceptionOf(tmResult[p]), ""))
    /\ UNCHANGED <<settings, repPc, repEndpoint, repFormat, repIndex, repOutcome,
                   repFiltered, repError, allData, totalCount, repResult, repUuid,
                   repFeaturesData, repFeatures,
                   repParse, repRawData>>

REP_WaitCheckResponse(p, resp) ==
    /\ repPc[p] = "wait"
    /\ WFC_CheckResponse(p, resp)
    /\ IF resp.kind = "ok"
       THEN Logged(p, CallOver(p, "status", repUuid[p], resp.kind, resp.code,
                               NoError, PollBranch(CurrentStatus(resp.body))))
       ELSE Logged(p, CallOver(p, "status", repUuid[p], resp.kind, resp.code,
                               UpstreamFailure("Failed to check status: ", resp), ""))
    /\ UNCHANGED <<settings, repPc, repEndpoint, repFormat, repIndex, repOutcome,
                   repFiltered, repError, allData, totalCount, repResult, repUuid,
                   repFeaturesData, repFeatures,
                   repParse, repRawData>>

\* wait_for_completion is over: its status is returned to the report
\* function, or its exception leaves the stage.
REP_WaitDone(p) ==
    /\ repPc[p] = "wait"
    /\ pollPc[p] = "done"
    /\ pollPc' = [pollPc EXCEPT ![p] = "idle"]
    /\ pollResult' = [pollResult EXCEPT ![p] = NoPollResult]
    /\ pollStatusData' = [pollStatusData EXCEPT ![p] = NoStatusData]
    /\ pollStatus' = [pollStatus EXCEPT ![p] = S_empty]
    /\ pollCount' = [pollCount EXCEPT ![p] = 0]
    /\ pollSleeps' = [pollSleeps EXCEPT ![p] = 0]
    /\ pollStart' = [pollStart EXCEPT ![p] = 0]
    /\ pollCheckedAt' = [pollCheckedAt EXCEPT ![p] = 0]
    /\ UNCHANGED <<pollTimeout, pollInterval>>
    /\ IF pollResult[p].kind = "return"
       THEN /\ repPc' = [repPc EXCEPT ![p] = NextStage("wait")]
            /\ UNCHANGED <<settings, repEndpoint, repFormat, repIndex, repOutcome,
                           repFiltered, repError, allData, totalCount, repResult>>
       ELSE REP_Fail(p, pollResult[p])
    /\ UNCHANGED <<tmVars, upVars, repUuid, repFeaturesData, repFeatures, repLog,
                   repParse, repRawData>>

\* What download_report(uuid, format) records of a 2xx response: the parser
\* chosen and, unless the parser raises, raw_data.
DL_Parse(p, format, resp) ==
    /\ repParse' = [repParse EXCEPT ![p] =
           [format |-> format, content_type |-> DeclaredType(resp),
            mode |-> ParseMode(format, DeclaredType(resp))]]
    /\ repRawData' = [repRawData EXCEPT ![p] =
           IF ParseRaises(format, resp) THEN @ ELSE Parsed(format, resp)]

\* download_report(uuid, download_format) returns raw_data, which is
\* normalized and filtered; or the download or the parsing raises.
REP_DownloadResponse(p, resp) ==
    /\ repPc[p] = "download"
    /\ UP_Response(p)
    /\ IF resp.kind = "ok" /\ ~ParseRaises(DownloadFormat(repFormat[p]), resp)
       THEN /\ DL_Parse(p, DownloadFormat(repFormat[p]), resp)
            /\ REP_Succeed(p,
                   FilterRows(NormalizeRows(Parsed(DownloadFormat(repFormat[p]), resp)),
                              resp.payload))
            /\ Logged(p, CallOver(p, "download", repUuid[p], resp.kind, resp.code,
                                  NoError, ""))
       ELSE IF resp.kind = "ok"
       THEN /\ DL_Parse(p, DownloadFormat(repFormat[p]), resp)
            /\ REP_Fail(p, JSONDecodeError)
            /\ Logged(p, CallOver(p, "download", repUuid[p], resp.kind, resp.code,
                                  JSONDecodeError, ""))
       ELSE /\ REP_Fail(p, UpstreamFailure("Failed to download report: ", resp))
            /\ Logged(p, CallOver(p, "download", repUuid[p], resp.kind, resp.code,
                                  UpstreamFailure("Failed to download report: ", resp), ""))
            /\ UNCHANGED <<repParse, repRawData>>
    /\ UNCHANGED <<repUuid, repFeaturesData, repFeatures, pollVars>>

(***************************************************************************)
(* The lookups by job id of apps/api/routes.py: get_report_status checks   *)
(* the status and downloads when it is completed, download_report          *)
(* downloads at once.  Both ask download_report for final_format itself.   *)
(***************************************************************************)
LookupEndpoints == {"status", "download"}

LookupStages == {"check", "fetch"}

\* The GcoreClient call of a stage.
LookupOp(stage) == IF stage = "check" THEN "status" ELSE "download"

\* The text of the `except Exception` handler of each lookup.
FailureText(endpoint) ==
    IF endpoint = "status" THEN <<"Failed to get report: ">>
    ELSE <<"Failed to download report: ">>

\* count of the response built from raw_data.
LookupCount(final_format, raw_data) ==
    IF final_format = "excel"
    THEN IF raw_data.shape = "excel" THEN raw_data.size_bytes ELSE 0
    ELSE Len(NormalizeRows(raw_data))

\* The records that `data` of the response encodes: raw_data itself for
\* excel, the normalized rows (as CSV text or as a list) otherwise.
LookupRows(final_format, raw_data) ==
    IF final_format = "excel" THEN raw_data.rows ELSE NormalizeRows(raw_data)

REP_LookupRequest(p, endpoint, uuid, final_format) ==
    /\ repPc[p] = "idle"
    /\ repPc' = [repPc EXCEPT ![p] = IF endpoint = "status" THEN "check" ELSE "fetch"]
    /\ repEndpoint' = [repEndpoint EXCEPT ![p] = endpoint]
    /\ repFormat' = [repFormat EXCEPT ![p] = final_format]
    /\ repUuid' = [repUuid EXCEPT ![p] = uuid]
    /\ repLog' = [repLog EXCEPT ![p] = <<>>]
    /\ UNCHANGED <<settings, repIndex, repOutcome, repFiltered, repError, allData,
                   totalCount, repResult, repFeaturesData, repFeatures, repParse,
                   repRawData>>

\* check_status or download_report is called.
REP_LookupBegin(p) ==
    /\ repPc[p] \in LookupStages
    /\ UP_Begin(p, LookupOp(repPc[p]))
    /\ UNCHANGED <<pollVars, repVars>>

REP_LookupAuth(p, resp) ==
    /\ repPc[p] \in LookupStages
    /\ UP_Auth(p, resp)
    /\ UNCHANGED <<pollVars, repVars>>

\* Exception e reaches the handler of the lookup.
REP_LookupFail(p, e) ==
    /\ repError' = [repError EXCEPT ![p] = e]
    /\ repPc' = [repPc EXCEPT ![p] = "done"]
    /\ repResult' = [repResult EXCEPT ![p] =
           HTTPException(500, FailureText(repEndpoint[p]) \o e.detail)]
    /\ UNCHANGED <<settings, repEndpoint, repFormat, repIndex, repOutcome,
                   repFiltered, allData, totalCount, repUuid, repFeaturesData,
                   repFeatures>>

\* The lookup returns its response.
REP_LookupReturn(p, status, count, rows) ==
    /\ repPc' = [repPc EXCEPT ![p] = "done"]
    /\ repResult' = [repResult EXCEPT ![p] =
           ReportResponse(repUuid[p], status, count, rows, repFormat[p])]
    /\ UNCHANGED <<settings, repEndpoint, repFormat, repIndex, repOutcome,
                   repFiltered, repError, allData, totalCount, repUuid,
                   repFeaturesData, repFeatures>>

REP_LookupRaise(p) ==
    /\ repPc[p] \in LookupStages
    /\ UP_Raise(p)
    /\ REP_LookupFail(p, ExceptionOf(tmResult[p]))
    /\ Logged(p, CallOver(p, LookupOp(repPc[p]), repUuid[p], "none", 0,
                          ExceptionOf(tmResult[p]), ""))
    /\ UNCHANGED <<repParse, repRawData, pollVars>>

\* A variant that also downloads for a synonym of the status.
LookupCompleted_Synonym(status) == status \in {S_completed, S_complete}

\* if status != "completed": return ...; the download follows otherwise.
LookupCompleted(status) == status = S_completed

\* get_report_status: check_status returns and the status is compared with
\* "completed", or check_status raises.
REP_CheckResponse(p, resp) ==
    /\ repPc[p] = "check"
    /\ UP_Response(p)
    /\ IF resp.kind = "ok" /\ LookupCompleted(CurrentStatus(resp.body))
       THEN /\ repPc' = [repPc EXCEPT ![p] = "fetch"]
            /\ UNCHANGED <<settings, repEndpoint, repFormat, repIndex, repOutcome,
                           repFiltered, repError, allData, totalCount, repResult,
                           repUuid, repFeaturesData, repFeatures>>
            /\ Logged(p, CallOver(p, "status", repUuid[p], resp.kind, resp.code,
                                  NoError, "completed"))
       ELSE IF resp.kind = "ok"
       THEN /\ REP_LookupReturn(p, CurrentStatus(resp.body), 0, <<>>)
            /\ Logged(p, CallOver(p, "status", repUuid[p], resp.kind, resp.code,
                                  NoError, "other"))
       ELSE /\ REP_LookupFail(p, UpstreamFailure("Failed to check status: ", resp))
            /\ Logged(p, CallOver(p, "status", repUuid[p], resp.kind, resp.code,
                                  UpstreamFailure("Failed to check status: ", resp), ""))
    /\ UNCHANGED <<repParse, repRawData, pollVars>>

\* download_report(uuid, final_format) returns raw_data, of which the
\* response is built; or the download or the parsing raises.
REP_FetchResponse(p, resp) ==
    /\ repPc[p] = "fetch"
    /\ UP_Response(p)
    /\ IF resp.kind = "ok" /\ ~ParseRaises(repFormat[p], resp)
       THEN /\ DL_Parse(p, repFormat[p], resp)
            /\ REP_LookupReturn(p, S_completed,
                   LookupCount(repFormat[p], Parsed(repFormat[p], resp)),
                   LookupRows(repFormat[p], Parsed(repFormat[p], resp)))
            /\ Logged(p, CallOver(p, "download", repUuid[p], resp.kind, resp.code,
                                  NoError, ""))
       ELSE IF resp.kind = "ok"
       THEN /\ DL_Parse(p, repFormat[p], resp)
            /\ REP_LookupFail(p, JSONDecodeError)
            /\ Logged(p, CallOver(p, "download", repUuid[p], resp.kind, resp.code,
                                  JSONDecodeError, ""))
       ELSE /\ REP_LookupFail(p, UpstreamFailure("Failed to download report: ", resp))
            /\ Logged(p, CallOver(p, "download", repUuid[p], resp.kind, resp.code,
                                  UpstreamFailure("Failed to download report: ", resp), ""))
            /\ UNCHANGED <<repParse, repRawData>>
    /\ UNCHANGED pollVars

(***************************************************************************)
(* The values of apps/core/data_processor.py.                              *)
(* A value is what json or csv parsing yields: None, a bool, an int, a     *)
(* float, a str, a list or a dict.  `num` is the number of a bool, int or  *)
(* float (floats are whole: JFloat(2) is 2.0) and the length of a list or  *)
(* dict; `text` is the characters of a str and the repr of a list or dict. *)
(* A record (a Python dict) is the sequence of its [key, val] fields in    *)
(* insertion order, its keys distinct.                                     *)
(***************************************************************************)
JNull == [kind |-> "null", num |-> 0, text |-> <<>>]

JBool(b) == [kind |-> "bool", num |-> IF b THEN 1 ELSE 0, text |-> <<>>]

JInt(n) == [kind |-> "int", num |-> n, text |-> <<>>]

JFloat(n) == [kind |-> "float", num |-> n, text |-> <<>>]

JStr(s) == [kind |-> "str", num |-> 0, text |-> s]

JList(n, repr) == [kind |-> "list", num |-> n, text |-> repr]

JDict(n, repr) == [kind |-> "dict", num |-> n, text |-> repr]

\* The int 10**309, which is beyond the range of float.
JBigInt ==
    [kind |-> "bigint", num |-> 0,
     text |-> [i \in 1..310 |-> IF i = 1 THEN "1" ELSE "0"]]

Field(key, val) == [key |-> key, val |-> val]

\* The key None, under which csv.DictReader files the values of a line that
\* is longer than the header.
RestKey == <<"None object">>

DigitChars == <<"0", "1", "2", "3", "4", "5", "6", "7", "8", "9">>

RECURSIVE Digits(_)
Digits(n) ==
    IF n < 10 THEN <<DigitChars[n + 1]>>
    ELSE Digits(n \div 10) \o <<DigitChars[(n % 10) + 1]>>

\* str(value)
Str(v) ==
    IF v.kind = "null" THEN <<"N", "o", "n", "e">>
    ELSE IF v.kind = "bool"
    THEN IF v.num = 1 THEN <<"T", "r", "u", "e">> ELSE <<"F", "a", "l", "s", "e">>
    ELSE IF v.kind = "int"
    THEN IF v.num < 0 THEN <<"-">> \o Digits(-v.num) ELSE Digits(v.num)
    ELSE IF v.kind = "float"
    THEN (IF v.num < 0 THEN <<"-">> \o Digits(-v.num) ELSE Digits(v.num)) \o <<".", "0">>
    ELSE v.text

\* bool(value): the truth value tested by `if metric_value`.
Bool(v) ==
    IF v.kind = "null" THEN FALSE
    ELSE IF v.kind \in {"bool", "int", "float", "list", "dict"} THEN v.num # 0
    ELSE IF v.kind = "str" THEN v.text # <<>>
    ELSE TRUE

\* float(text): blanks around, an optional sign, digits with at most one
\* point.  (The texts drawn hold no exponent, "inf", "nan" or underscore.)
Unsigned(t) == IF t # <<>> /\ t[1] \in {"+", "-"} THEN SubSeq(t, 2, Len(t)) ELSE t

IsNumberText(s) ==
    LET body == Unsigned(Strip(s))
        digits == {DigitChars[d] : d \in DOMAIN DigitChars} IN
    /\ \A i \in DOMAIN body : body[i] \in digits \cup {"."}
    /\ Cardinality({i \in DOMAIN body : body[i] = "."}) <= 1
    /\ \E i \in DOMAIN body : body[i] \in digits

IsZeroText(s) == \A i \in DOMAIN Unsigned(Strip(s)) : Unsigned(Strip(s))[i] \in {"0", "."}

\* float(value): the number's being zero, or the exception raised.
FloatOf(v) ==
    IF v.kind \in {"bool", "int", "float"} THEN [kind |-> "ok", zero |-> v.num = 0]
    ELSE IF v.kind = "bigint" THEN [kind |-> "OverflowError", zero |-> FALSE]
    ELSE IF v.kind = "str"
    THEN IF IsNumberText(v.text) THEN [kind |-> "ok", zero |-> IsZeroText(v.text)]
         ELSE [kind |-> "ValueError", zero |-> FALSE]
    ELSE [kind |-> "TypeError", zero |-> FALSE]

\* row.keys() and row.get(key, default)
Keys(row) == {row[i].key : i \in DOMAIN row}

Get(row, key, default) ==
    IF key \in Keys(row) THEN row[CHOOSE i \in DOMAIN row : row[i].key = key].val
    ELSE default

(***************************************************************************)
(* DataProcessor.filter_by_client_and_metric.                              *)
(***************************************************************************)
L_client == <<"c", "l", "i", "e", "n", "t">>

L_id == <<"i", "d">>

L_metric == <<"m", "e", "t", "r", "i", "c">>

L_value == <<"v", "a", "l", "u", "e">>

\* "client" in key.lower() and "id" in key.lower()
ClientKeyLike(key) == Contains(Lower(key), L_client) /\ Contains(Lower(key), L_id)

\* A test that takes every "metric" column.
MetricKeyLike_MetricOnly(key) == Contains(Lower(key), L_metric)

\* "metric" in key.lower() and "value" in key.lower()
MetricKeyLike(key) == Contains(Lower(key), L_metric) /\ Contains(Lower(key), L_value)

\* client_key = None, metric_key = None
NoColumn == <<>>

\* rows[:5]
ScanLimit == 5

\* The inner loop over sample.keys(): the last key among those that pass
\* the test (at the positions hits), or the key found before.
LastLike(sample, hits, found) ==
    IF hits = {} THEN found
    ELSE sample[CHOOSE i \in hits : \A j \in hits : j <= i].key

\* The loop over rows[:5] from sample i on: the keys detected, or the
\* AttributeError of key.lower() on the key None.
RECURSIVE Detect(_, _, _, _)
Detect(rows, i, client_key, metric_key) ==
    IF i > Len(rows) \/ i > ScanLimit
    THEN [kind |-> "ok", client_key |-> client_key, metric_key |-> metric_key]
    ELSE IF RestKey \in Keys(rows[i])
    THEN [kind |-> "AttributeError", client_key |-> NoColumn, metric_key |-> NoColumn]
    ELSE LET sample == rows[i]
             ck == LastLike(sample, {k \in DOMAIN sample : ClientKeyLike(sample[k].key)},
                            client_key)
             mk == LastLike(sample, {k \in DOMAIN sample : MetricKeyLike(sample[k].key)},
                            metric_key) IN
         IF ck # NoColumn /\ mk # NoColumn
         THEN [kind |-> "ok", client_key |-> ck, metric_key |-> mk]
         ELSE Detect(rows, i + 1, ck, mk)

\* A comparison that does not trim.
ClientMatches_Untrimmed(row, client_key, target_client_id) ==
    Str(Get(row, client_key, JStr(<<>>))) = target_client_id

\* str(row.get(client_key, "")).strip() == str(target_client_id).strip()
ClientMatches(row, client_key, target_client_id) ==
    Strip(Str(Get(row, client_key, JStr(<<>>)))) = Strip(target_client_id)

\* The try block on metric_value = row.get(metric_key, 0): "kept", "dropped",
\* or the exception that neither except clause catches.
MetricVerdict(row, metric_key) ==
    LET metric_value == Get(row, metric_key, JInt(0)) IN
    IF ~Bool(metric_value) THEN "dropped"
    ELSE IF FloatOf(metric_value).kind = "ok"
    THEN IF FloatOf(metric_value).zero THEN "dropped" ELSE "kept"
    ELSE IF FloatOf(metric_value).kind \in {"ValueError", "TypeError"} THEN "kept"
    ELSE FloatOf(metric_value).kind

FilterResult(kind, rows, client_key, metric_key) ==
    [op |-> "filter", kind |-> kind, rows |-> rows, client_key |-> client_key,
     metric_key |-> metric_key]

FilterByClientAndMetric(rows, target_client_id) ==
    IF rows = <<>> THEN FilterResult("return", <<>>, NoColumn, NoColumn)
    ELSE LET d == Detect(rows, 1, NoColumn, NoColumn) IN
    IF d.kind # "ok" THEN FilterResult(d.kind, <<>>, NoColumn, NoColumn)
    ELSE IF d.client_key = NoColumn \/ d.metric_key = NoColumn
    THEN FilterResult("return", rows, d.client_key, d.metric_key)
    ELSE LET Verdict(row) ==
                 IF ClientMatches(row, d.client_key, target_client_id)
                 THEN MetricVerdict(row, d.metric_key)
                 ELSE "dropped" IN
         IF \E i \in DOMAIN rows : Verdict(rows[i]) \notin {"kept", "dropped"}
         THEN FilterResult(
                  Verdict(rows[CHOOSE i \in DOMAIN rows :
                                   /\ Verdict(rows[i]) \notin {"kept", "dropped"}
                                   /\ \A j \in 1..(i - 1) :
                                          Verdict(rows[j]) \in {"kept", "dropped"}]),
                  <<>>, d.client_key, d.metric_key)
         ELSE FilterResult("return", SelectSeq(rows, LAMBDA row : Verdict(row) = "kept"),
                           d.client_key, d.metric_key)

(***************************************************************************)
(* DataProcessor.normalize_rows.                                           *)
(* raw_data is a list (of elements), a dict (of top-level fields, each a   *)
(* list of elements or a scalar) or a scalar (None included).  An element  *)
(* is a dict (a record), a list (of cells) or a scalar.                    *)
(***************************************************************************)
DictElem(fields) == [kind |-> "dict", fields |-> fields, cells |-> <<>>]

ListElem(cells) == [kind |-> "list", fields |-> <<>>, cells |-> cells]

ScalarElem(cell) == [kind |-> "scalar", fields |-> <<>>, cells |-> <<cell>>]

ListVal(elems) == [kind |-> "list", elems |-> elems]

ScalarVal(cell) == [kind |-> "scalar", elems |-> <<ScalarElem(cell)>>]

\* What raw_data.get(key) gives for a key that is absent: None.
AbsentVal == ScalarVal(JNull)

RawList(elems) == [kind |-> "list", elems |-> elems, fields |-> <<>>]

RawDict(fields) == [kind |-> "dict", elems |-> <<>>, fields |-> fields]

RawScalar(cell) == [kind |-> "scalar", elems |-> <<ScalarElem(cell)>>, fields |-> <<>>]

K_data == <<"d", "a", "t", "a">>

K_headers == <<"h", "e", "a", "d", "e", "r", "s">>

K_rows == <<"r", "o", "w", "s">>

\* all(isinstance(x, dict) for x in value), all(isinstance(x, list) ...)
AllDicts(elems) == \A i \in DOMAIN elems : elems[i].kind = "dict"

AllLists(elems) == \A i \in DOMAIN elems : elems[i].kind = "list"

\* The list of dicts as a sequence of records.
Records(elems) == [i \in DOMAIN elems |-> elems[i].fields]

\* isinstance(raw_data, list) and all(isinstance(x, dict) for x in raw_data)
IsListOfDicts(raw_data) == raw_data.kind = "list" /\ AllDicts(raw_data.elems)

\* A wrapper rule that yields to the tabular rule.
IsDataWrapper_AfterTabular(raw_data) ==
    /\ raw_data.kind = "dict"
    /\ Get(raw_data.fields, K_data, AbsentVal).kind = "list"
    /\ AllDicts(Get(raw_data.fields, K_data, AbsentVal).elems)
    /\ ~(/\ Get(raw_data.fields, K_headers, AbsentVal).kind = "list"
         /\ Get(raw_data.fields, K_rows, AbsentVal).kind = "list")

\* isinstance(raw_data, dict) and isinstance(raw_data.get("data"), list) and
\* all(isinstance(x, dict) for x in data_list)
IsDataWrapper(raw_data) ==
    /\ raw_data.kind = "dict"
    /\ Get(raw_data.fields, K_data, AbsentVal).kind = "list"
    /\ AllDicts(Get(raw_data.fields, K_data, AbsentVal).elems)

\* isinstance(raw_data, dict) and isinstance(raw_data.get("headers"), list)
\* and isinstance(raw_data.get("rows"), list)
IsTabular(raw_data) ==
    /\ raw_data.kind = "dict"
    /\ Get(raw_data.fields, K_headers, AbsentVal).kind = "list"
    /\ Get(raw_data.fields, K_rows, AbsentVal).kind = "list"

\* row_dict[key] = val
DictSet(record, key, val) ==
    IF key \in Keys(record)
    THEN [i \in DOMAIN record |->
             IF record[i].key = key THEN Field(key, val) ELSE record[i]]
    ELSE Append(record, Field(key, val))

\* dict(zip(headers, row)) from position j on, for len(row) == len(headers);
\* the headers are strings.
RECURSIVE ZipDict(_, _, _, _)
ZipDict(headers, cells, j, record) ==
    IF j > Len(headers) THEN record
    ELSE ZipDict(headers, cells, j + 1,
                 DictSet(record, headers[j].cells[1].text, cells[j]))

\* isinstance(row, list) and len(row) == len(headers)
RowFits(row, headers) == row.kind = "list" /\ Len(row.cells) = Len(headers)

\* The loop over rows_data from row i on.
RECURSIVE TabularRows(_, _, _)
TabularRows(headers, rows_data, i) ==
    IF i > Len(rows_data) THEN <<>>
    ELSE (IF RowFits(rows_data[i], headers)
          THEN <<ZipDict(headers, rows_data[i].cells, 1, <<>>)>>
          ELSE <<>>) \o TabularRows(headers, rows_data, i + 1)

\* {f"col_{i}": val for i, val in enumerate(row)}
ColDict(cells) ==
    [j \in DOMAIN cells |-> Field(<<"c", "o", "l", "_">> \o Digits(j - 1), cells[j])]

\* The loop over raw_data.items() from field i on.
RECURSIVE Flattened(_, _)
Flattened(fields, i) ==
    IF i > Len(fields) THEN <<>>
    ELSE (IF fields[i].val.kind # "list" THEN <<>>
          ELSE IF AllDicts(fields[i].val.elems) THEN Records(fields[i].val.elems)
          ELSE IF AllLists(fields[i].val.elems)
          THEN [k \in DOMAIN fields[i].val.elems |-> ColDict(fields[i].val.elems[k].cells)]
          ELSE <<>>) \o Flattened(fields, i + 1)

NormalizeResult(kind, rows, rule) ==
    [op |-> "normalize", kind |-> kind, rows |-> rows, rule |-> rule]

\* normalize_rows(raw_data); `rule` names the branch that returned.  A
\* header that is a list or a dict is unhashable: dict(zip(...)) raises
\* TypeError on the first row that fits.
DP_NormalizeRows(raw_data) ==
    IF IsListOfDicts(raw_data)
    THEN NormalizeResult("return", Records(raw_data.elems), "list")
    ELSE IF IsDataWrapper(raw_data)
    THEN NormalizeResult("return", Records(Get(raw_data.fields, K_data, AbsentVal).elems),
                         "data")
    ELSE IF IsTabular(raw_data)
    THEN LET headers == Get(raw_data.fields, K_headers, AbsentVal).elems
             rows_data == Get(raw_data.fields, K_rows, AbsentVal).elems IN
         IF /\ \E i \in DOMAIN rows_data : RowFits(rows_data[i], headers)
            /\ \E j \in DOMAIN headers : headers[j].kind # "scalar"
         THEN NormalizeResult("TypeError", <<>>, "tabular")
         ELSE NormalizeResult("return", TabularRows(headers, rows_data, 1), "tabular")
    ELSE IF raw_data.kind = "dict"
    THEN NormalizeResult("return", Flattened(raw_data.fields, 1), "flatten")
    ELSE NormalizeResult("return", <<>>, "none")

(***************************************************************************)
(* DataProcessor.remove_zero_numeric_fields and DataProcessor.strip_nulls. *)
(***************************************************************************)
\* isinstance(value, (int, float)) and value == 0; a bool is an int, and
\* False == 0.
IsZeroNumber(value) == value.kind \in {"int", "float", "bool"} /\ value.num = 0

CleanResult(op, record) == [op |-> op, kind |-> "return", record |-> record]

RemoveZeroNumericFields(record) ==
    CleanResult("remove_zero_numeric_fields",
                SelectSeq(record, LAMBDA field : ~IsZeroNumber(field.val)))

\* A variant that drops every falsy value.
IsNull_Falsy(value) == ~Bool(value)

\* A variant that drops only the first null field it meets.
StripNulls_FirstOnly(record) ==
    LET Null(value) == value.kind = "null" \/ (value.kind = "str" /\ value.text = <<>>)
        kept == SelectSeq([i \in DOMAIN record |-> [at |-> i, field |-> record[i]]],
                          LAMBDA e : \/ ~Null(e.field.val)
                                     \/ \E j \in 1..(e.at - 1) : Null(record[j].val)) IN
    [op |-> "strip_nulls", kind |-> "return",
     record |-> [i \in DOMAIN kept |-> kept[i].field]]

\* not (v is not None and v != "")
IsNull(value) == value.kind = "null" \/ (value.kind = "str" /\ value.text = <<>>)

StripNulls(record) ==
    CleanResult("strip_nulls", SelectSeq(record, LAMBDA field : ~IsNull(field.val)))

\* The cleaning of one record on the JSON path of the report functions:
\* remove_zero_numeric_fields, then strip_nulls.
Clean(record) == StripNulls(RemoveZeroNumericFields(record).record).record

(***************************************************************************)
(* DataProcessor.to_csv, and the reading of delimited text by              *)
(* GcoreClient.download_report (csv.DictReader over text.splitlines()).    *)
(***************************************************************************)
\* The characters of the model in the order of their code points, which is
\* the order sorted() compares strings by.
CharsAscending ==
    <<"\n", "\f", "\r", " ", "\"", "'", ",", "-", ".">> \o DigitChars \o <<":">>
    \o UpperLetters \o <<"[", "]", "_">> \o LowerLetters \o <<"{", "}">>

Ord(c) == CHOOSE i \in DOMAIN CharsAscending : CharsAscending[i] = c

\* s < t for two strings.
RECURSIVE LexLess(_, _)
LexLess(s, t) ==
    IF t = <<>> THEN FALSE
    ELSE IF s = <<>> THEN TRUE
    ELSE IF s[1] = t[1] THEN LexLess(Tail(s), Tail(t))
    ELSE Ord(s[1]) < Ord(t[1])

\* sorted(keys)
RECURSIVE Sorted(_)
Sorted(keys) ==
    IF keys = {} THEN <<>>
    ELSE LET least == CHOOSE k \in keys : \A other \in keys \ {k} : LexLess(k, other) IN
         <<least>> \o Sorted(keys \ {least})

\* all_keys after the loop of update(row.keys())
AllKeys(rows) == UNION {Keys(rows[i]) : i \in DOMAIN rows}

\* A variant that lists the keys in the order in which the rows bring them.
RECURSIVE FieldNames_FirstSeen(_)
FieldNames_FirstSeen(rows) ==
    IF rows = <<>> THEN <<>>
    ELSE LET before == FieldNames_FirstSeen(SubSeq(rows, 1, Len(rows) - 1))
             seen == {before[i] : i \in DOMAIN before} IN
         before \o SelectSeq([i \in DOMAIN rows[Len(rows)] |-> rows[Len(rows)][i].key],
                             LAMBDA k : k \notin seen)

\* fieldnames = sorted(all_keys)
FieldNames(rows) == Sorted(AllKeys(rows))

\* The text the csv writer makes of a value: nothing of None, str(value) of
\* any other.
CellText(value) == IF value.kind = "null" THEN <<>> ELSE Str(value)

\* DictWriter's row of a record: the value of each field name, restval ""
\* where the record lacks it.
CellsOf(row, fieldnames) ==
    [j \in DOMAIN fieldnames |->
        IF fieldnames[j] \in Keys(row) THEN CellText(Get(row, fieldnames[j], JNull))
        ELSE <<>>]

\* QUOTE_MINIMAL: a cell is quoted when it holds the delimiter, the quote
\* character or a character of the line terminator "\r\n".
NeedsQuotes(text) == \E i \in DOMAIN text : text[i] \in {",", "\"", "\r", "\n"}

RECURSIVE DoubledQuotes(_)
DoubledQuotes(text) ==
    IF text = <<>> THEN <<>>
    ELSE (IF text[1] = "\"" THEN <<"\"", "\"">> ELSE <<text[1]>>)
         \o DoubledQuotes(Tail(text))

Quoted(text) == <<"\"">> \o DoubledQuotes(text) \o <<"\"">>

RECURSIVE Joined(_)
Joined(cells) ==
    IF cells = <<>> THEN <<>>
    ELSE IF Len(cells) = 1 THEN cells[1]
    ELSE cells[1] \o <<",">> \o Joined(Tail(cells))

\* writer.writerow(cells): a lone empty cell is written as "", so that the
\* line is not blank.
CsvLine(cells) ==
    (IF cells = <<<<>>>> THEN Quoted(<<>>)
     ELSE Joined([j \in DOMAIN cells |->
                     IF NeedsQuotes(cells[j]) THEN Quoted(cells[j]) ELSE cells[j]]))
    \o <<"\r", "\n">>

RECURSIVE CsvLines(_)
CsvLines(lines) ==
    IF lines = <<>> THEN <<>> ELSE CsvLine(lines[1]) \o CsvLines(Tail(lines))

ToCsvResult(kind, fieldnames, text) ==
    [op |-> "to_csv", kind |-> kind, fieldnames |-> fieldnames, text |-> text]

\* DataProcessor.to_csv(rows).  sorted() cannot compare the key None with a
\* string and raises TypeError.
ToCsv(rows) ==
    IF rows = <<>> THEN ToCsvResult("return", <<>>, <<>>)
    ELSE IF RestKey \in AllKeys(rows) /\ AllKeys(rows) # {RestKey}
    THEN ToCsvResult("TypeError", <<>>, <<>>)
    ELSE LET fieldnames == FieldNames(rows) IN
         ToCsvResult("return", fieldnames,
                     CsvLine([j \in DOMAIN fieldnames |->
                                 IF fieldnames[j] = RestKey THEN <<>> ELSE fieldnames[j]])
                     \o CsvLines([i \in DOMAIN rows |-> CellsOf(rows[i], fieldnames)]))

\* The characters at which str.splitlines() breaks a line, among those of
\* the model.
LineBreaks == {"\n", "\r", "\f"}

\* text.splitlines() from position i on, `line` being the line begun.
RECURSIVE SplitFrom(_, _, _)
SplitFrom(text, i, line) ==
    IF i > Len(text) THEN (IF line = <<>> THEN <<>> ELSE <<line>>)
    ELSE IF text[i] = "\r" /\ i < Len(text) /\ text[i + 1] = "\n"
    THEN <<line>> \o SplitFrom(text, i + 2, <<>>)
    ELSE IF text[i] \in LineBreaks THEN <<line>> \o SplitFrom(text, i + 1, <<>>)
    ELSE SplitFrom(text, i + 1, Append(line, text[i]))

SplitLines(text) == SplitFrom(text, 1, <<>>)

\* csv.reader over the lines, at character ci of line li: the records read.
\* The end of a line inside a quoted field adds nothing to the field, the
\* line carrying no line break any more.
RECURSIVE CsvRead(_, _, _, _, _, _, _)
CsvRead(lines, li, ci, state, field, fields, records) ==
    IF li > Len(lines)
    THEN IF state = "START_RECORD" THEN records
         ELSE Append(records, Append(fields, field))
    ELSE IF ci > Len(lines[li])
    THEN IF state = "START_RECORD"
         THEN CsvRead(lines, li + 1, 1, "START_RECORD", <<>>, <<>>, Append(records, <<>>))
         ELSE IF state = "IN_QUOTED_FIELD"
         THEN CsvRead(lines, li + 1, 1, state, field, fields, records)
         ELSE CsvRead(lines, li + 1, 1, "START_RECORD", <<>>, <<>>,
                      Append(records, Append(fields, field)))
    ELSE LET c == lines[li][ci] IN
         IF state \in {"START_RECORD", "START_FIELD"}
         THEN IF c = "\""
              THEN CsvRead(lines, li, ci + 1, "IN_QUOTED_FIELD", <<>>, fields, records)
              ELSE IF c = ","
              THEN CsvRead(lines, li, ci + 1, "START_FIELD", <<>>, Append(fields, <<>>), records)
              ELSE CsvRead(lines, li, ci + 1, "IN_FIELD", <<c>>, fields, records)
         ELSE IF state = "IN_FIELD"
         THEN IF c = ","
              THEN CsvRead(lines, li, ci + 1, "START_FIELD", <<>>, Append(fields, field), records)
              ELSE CsvRead(lines, li, ci + 1, "IN_FIELD", Append(field, c), fields, records)
         ELSE IF state = "IN_QUOTED_FIELD"
         THEN IF c = "\""
              THEN CsvRead(lines, li, ci + 1, "QUOTE_IN_QUOTED_FIELD", field, fields, records)
              ELSE CsvRead(lines, li, ci + 1, "IN_QUOTED_FIELD", Append(field, c), fields, records)
         ELSE IF c = "\""
              THEN CsvRead(lines, li, ci + 1, "IN_QUOTED_FIELD", Append(field, c), fields, records)
              ELSE IF c = ","
              THEN CsvRead(lines, li, ci + 1, "START_FIELD", <<>>, Append(fields, field), records)
              ELSE CsvRead(lines, li, ci + 1, "IN_FIELD", Append(field, c), fields, records)

\* dict(zip(fieldnames, row)), then the cells beyond the field names under
\* the key None, or None for the field names beyond the cells.
RECURSIVE ReadDict(_, _, _, _)
ReadDict(fieldnames, cells, j, record) ==
    IF j > Len(fieldnames)
    THEN IF Len(cells) > Len(fieldnames)
         THEN DictSet(record, RestKey, JList(Len(cells) - Len(fieldnames), <<>>))
         ELSE record
    ELSE ReadDict(fieldnames, cells, j + 1,
                  DictSet(record, fieldnames[j],
                          IF j <= Len(cells) THEN JStr(cells[j]) ELSE JNull))

\* list(csv.DictReader(lines)): the first record read gives the field
\* names, and a record without cells is passed over.
DictReader(lines) ==
    LET records == CsvRead(lines, 1, 1, "START_RECORD", <<>>, <<>>, <<>>) IN
    IF records = <<>> THEN <<>>
    ELSE LET filled == SelectSeq(Tail(records), LAMBDA cells : cells # <<>>) IN
         [i \in DOMAIN filled |-> ReadDict(records[1], filled[i], 1, <<>>)]

NoCall == [op |-> "none"]

NoOutput == [op |-> "none", kind |-> "none"]

DPIdle == dpIn = NoCall /\ dpOut = NoOutput

(***************************************************************************)
(* Specification of the token cache: the coroutines of Procs call          *)
(* get_token again and again, clear_cache runs at any time, time passes.   *)
(***************************************************************************)
TMInit ==
    /\ credentials \in [username : {"", "user"}, password : {"", "secret"}]
    /\ startup = "pending"
    /\ tmAuthResp = [p \in Procs |-> NoAuthResponse]
    /\ cache = EmptyCache
    /\ tmPc = [p \in Procs |-> "idle"]
    /\ tmCurrentTime = [p \in Procs |-> 0]
    /\ tmResult = [p \in Procs |-> NoResult]
    /\ authCalls = 0
    /\ tokensIssued = 0
    /\ cleared = "no"
    /\ tmStale = [p \in Procs |-> FALSE]

TokInit ==
    /\ now = 0
    /\ TMInit
    /\ UPInit
    /\ WFCInit
    /\ REPInit
    /\ DPIdle

TokGetToken(p) == TM_Call(p) /\ UNCHANGED <<now, dpVars, histVars, upVars, pollVars, repVars>>

TokAuthResponse(p) ==
    \E resp \in AuthResponses :
        TM_AuthResponse(p, resp) /\ UNCHANGED <<now, dpVars, histVars, upVars, pollVars, repVars>>

TokDone(p) == TM_Done(p) /\ UNCHANGED <<now, dpVars, histVars, upVars, pollVars, repVars>>

TokClearCache ==
    /\ TM_ClearCache
    /\ UNCHANGED <<now, dpVars, histVars, upVars, pollVars, repVars>>

TokStartup == APP_Startup /\ UNCHANGED <<now, dpVars, histVars, upVars, pollVars, repVars>>

TokTick ==
    /\ \E d \in TokTickSteps :
          /\ now + d <= MaxTokTicks * d
          /\ Tick(d)
    /\ UNCHANGED <<tmVars, upVars, pollVars, repVars, dpVars, histVars>>

TokNext ==
    \/ TokStartup
    \/ \E p \in Procs : TokGetToken(p)
    \/ \E p \in Procs : TokAuthResponse(p)
    \/ \E p \in Procs : TokDone(p)
    \/ TokClearCache
    \/ TokTick

SpecToken == TokInit /\ [][TokNext]_vars

(***************************************************************************)
(* Specification of racing refreshes: as the token cache above, with the   *)
(* authentication endpoint also answering with a lifetime that is no       *)
(* number, and with the history of clear_cache() kept per request.         *)
(***************************************************************************)
RaceAuthResponses ==
    AuthResponses
    \cup [kind : {"ok"}, code : {200}, hasToken : {TRUE}, expires_in : {NotANumber}]

RaceInit ==
    /\ now = 0
    /\ TMInit
    /\ UPInit
    /\ WFCInit
    /\ REPInit
    /\ DPIdle

RaceGetToken(p) ==
    /\ TM_Call(p)
    /\ tmStale' = [tmStale EXCEPT ![p] = FALSE]
    /\ UNCHANGED <<now, dpVars, upVars, pollVars, repVars, lookStatusData>>

RaceAuthResponse(p) ==
    \E resp \in RaceAuthResponses :
        TM_AuthResponse(p, resp) /\ UNCHANGED <<now, dpVars, histVars, upVars, pollVars, repVars>>

RaceDone(p) == TM_Done(p) /\ UNCHANGED <<now, dpVars, histVars, upVars, pollVars, repVars>>

RaceClearCache ==
    /\ TM_ClearCache
    /\ tmStale' = [p \in Procs |-> tmStale[p] \/ tmPc[p] = "auth"]
    /\ UNCHANGED <<now, dpVars, upVars, pollVars, repVars, lookStatusData>>

RaceTick ==
    /\ \E d \in TokTickSteps :
          /\ now + d <= MaxRaceTicks * d
          /\ Tick(d)
    /\ UNCHANGED <<tmVars, upVars, pollVars, repVars, dpVars, histVars>>

RaceNext ==
    \/ \E p \in Procs : RaceGetToken(p)
    \/ \E p \in Procs : RaceAuthResponse(p)
    \/ \E p \in Procs : RaceDone(p)
    \/ RaceClearCache
    \/ RaceTick

SpecRace == RaceInit /\ [][RaceNext]_vars

(***************************************************************************)
(* Specification of the poll loop: one coroutine runs wait_for_completion  *)
(* on the shared token cache while time passes.                            *)
(***************************************************************************)
Poller == "p1"

PollTimeouts  == {0, 20, 40}
PollIntervals == {10}
PollTickSteps == {10}

\* loop.time() counts from an arbitrary origin.
PollClockOrigins == {0, 50}

PollInit ==
    /\ now \in PollClockOrigins
    /\ TMInit
    /\ UPInit
    /\ WFCInit
    /\ REPInit
    /\ DPIdle

PollEnter ==
    /\ \E timeout \in PollTimeouts, poll_interval \in PollIntervals :
          WFC_Enter(Poller, timeout, poll_interval)
    /\ UNCHANGED <<now, dpVars, histVars, repVars>>

PollCheck == WFC_Check(Poller) /\ UNCHANGED <<now, dpVars, histVars, repVars>>

PollCheckAuth ==
    \E resp \in AuthResponses : WFC_CheckAuth(Poller, resp) /\ UNCHANGED <<now, dpVars, histVars, repVars>>

PollCheckRaise == WFC_CheckRaise(Poller) /\ UNCHANGED <<now, dpVars, histVars, repVars>>

PollCheckResponse ==
    \E resp \in StatusResponses : WFC_CheckResponse(Poller, resp) /\ UNCHANGED <<now, dpVars, histVars, repVars>>

\* Time passes while the call is in progress.
PollTick ==
    /\ pollPc[Poller] \notin {"idle", "done"}
    /\ \E d \in PollTickSteps :
          /\ now + d <= MaxPollTicks * d
          /\ Tick(d)
    /\ UNCHANGED <<tmVars, upVars, pollVars, repVars, dpVars, histVars>>

PollNext ==
    \/ PollEnter
    \/ PollCheck
    \/ PollCheckAuth
    \/ PollCheckRaise
    \/ PollCheckResponse
    \/ PollTick

SpecPoll == PollInit /\ [][PollNext]_vars

(***************************************************************************)
(* Specification of the report functions: one request, for one product or  *)
(* for all, runs on the shared token cache while time passes.              *)
(***************************************************************************)
Requester == "p1"

RepTickSteps == {10}

\* The responses drawn in this specification.
RepAuthResponses ==
    {r \in AuthResponses : r.kind = "ok" => (r.hasToken /\ r.expires_in # 90)}

RepStatusResponses ==
    {r \in StatusResponses :
        r.kind = "ok" => r.body \in {StatusData(S_pending), StatusData(S_completed),
                                     StatusData(S_failed)}}

\* The formats requested: csv and excel are downloaded alike.
RepFormats == {"json", "excel"}

RepInit ==
    /\ now = 0
    /\ TMInit
    /\ UPInit
    /\ WFCInit
    /\ REPInit
    /\ DPIdle

RepRequest ==
    /\ \E endpoint \in Endpoints, final_format \in RepFormats :
          REP_Request(Requester, endpoint, final_format)
    /\ UNCHANGED <<now, dpVars, histVars, tmVars, upVars, pollVars>>

RepBegin == REP_Begin(Requester) /\ UNCHANGED <<now, dpVars, histVars>>

RepAuth == \E resp \in RepAuthResponses : REP_Auth(Requester, resp) /\ UNCHANGED <<now, dpVars, histVars>>

RepRaise == REP_Raise(Requester) /\ UNCHANGED <<now, dpVars, histVars>>

RepFeaturesResponses ==
    {r \in FeaturesResponses :
        r.kind = "ok" => r.body \in {NullBody, FeaturesBody(ManyFeatures)}}

RepFeaturesResponse ==
    \E resp \in RepFeaturesResponses :
        REP_FeaturesResponse(Requester, resp) /\ UNCHANGED <<now, dpVars, histVars>>

RepStartResponse ==
    \E resp \in StartResponses : REP_StartResponse(Requester, resp) /\ UNCHANGED <<now, dpVars, histVars>>

RepWaitEnter == REP_WaitEnter(Requester) /\ UNCHANGED <<now, dpVars, histVars>>

RepWaitCheck == REP_WaitCheck(Requester) /\ UNCHANGED <<now, dpVars, histVars>>

RepWaitCheckAuth ==
    \E resp \in RepAuthResponses :
        REP_WaitCheckAuth(Requester, resp) /\ UNCHANGED <<now, dpVars, histVars>>

RepWaitCheckRaise == REP_WaitCheckRaise(Requester) /\ UNCHANGED <<now, dpVars, histVars>>

RepWaitCheckResponse ==
    \E resp \in RepStatusResponses :
        REP_WaitCheckResponse(Requester, resp) /\ UNCHANGED <<now, dpVars, histVars>>

RepWaitDone == REP_WaitDone(Requester) /\ UNCHANGED <<now, dpVars, histVars>>

\* The payloads drawn in this specification: two records, encoded as JSON
\* or as CSV and declared as JSON.
RepDownloadResponses ==
    {r \in DownloadResponses :
        r.kind = "ok" =>
            /\ r.content_type = T_json
            /\ r.payload.body \in {"json", "csv"}
            /\ r.payload.records = <<"row1", "row2">>
            /\ r.payload.misread = <<>>}

RepDownloadResponse ==
    \E resp \in RepDownloadResponses :
        REP_DownloadResponse(Requester, resp) /\ UNCHANGED <<now, dpVars, histVars>>

\* Time passes while a request to the upstream or a sleep is pending.
RepTick ==
    /\ upPc[Requester] = "busy" \/ pollPc[Requester] = "sleeping"
    /\ \E d \in RepTickSteps :
          /\ now + d <= MaxRepTicks * d
          /\ Tick(d)
    /\ UNCHANGED <<tmVars, upVars, pollVars, repVars, dpVars, histVars>>

RepNext ==
    \/ RepRequest
    \/ RepBegin
    \/ RepAuth
    \/ RepRaise
    \/ RepFeaturesResponse
    \/ RepStartResponse
    \/ RepWaitEnter
    \/ RepWaitCheck
    \/ RepWaitCheckAuth
    \/ RepWaitCheckRaise
    \/ RepWaitCheckResponse
    \/ RepWaitDone
    \/ RepDownloadResponse
    \/ RepTick

SpecReport == RepInit /\ [][RepNext]_vars

(***************************************************************************)
(* Specification of the aggregate over downloads that can hold a line with *)
(* a surplus cell (SpecAggregate): the aggregate request in each format,   *)
(* whose downloads are CSV text declared as JSON or as CSV.                *)
(***************************************************************************)
AggAuthResponses == {r \in RepAuthResponses : r.kind # "status"}

AggStatusResponses ==
    {r \in StatusResponses :
        /\ r.kind # "status"
        /\ r.kind = "ok" => r.body \in {StatusData(S_pending), StatusData(S_completed)}}

\* Two rows, the second one with or without a surplus cell.
AggDownloadResponses ==
    {r \in [kind : {"ok"}, code : {200}, content_type : {T_json, T_csv},
            payload : [body : {"csv"},
                       records : {<<"row1", "row2">>, <<"row1", RestRow>>},
                       filtered : {<<>>, <<"row1">>, <<"row1", "row2">>,
                                   <<"row1", RestRow>>},
                       size_bytes : {120}, misread : {<<>>}]] :
        r.payload.filtered = SubSeq(r.payload.records, 1, Len(r.payload.filtered))}
    \cup {r \in DownloadResponses : r.kind = "transport"}

AggRequest ==
    /\ \E final_format \in Formats : REP_Request(Requester, "all", final_format)
    /\ UNCHANGED <<now, dpVars, histVars, tmVars, upVars, pollVars>>

AggAuth ==
    \E resp \in AggAuthResponses :
        REP_Auth(Requester, resp) /\ UNCHANGED <<now, dpVars, histVars>>

AggWaitCheckAuth ==
    \E resp \in AggAuthResponses :
        REP_WaitCheckAuth(Requester, resp) /\ UNCHANGED <<now, dpVars, histVars>>

AggWaitCheckResponse ==
    \E resp \in AggStatusResponses :
        REP_WaitCheckResponse(Requester, resp) /\ UNCHANGED <<now, dpVars, histVars>>

AggDownloadResponse ==
    \E resp \in AggDownloadResponses :
        REP_DownloadResponse(Requester, resp) /\ UNCHANGED <<now, dpVars, histVars>>

AggNext ==
    \/ AggRequest
    \/ RepBegin
    \/ AggAuth
    \/ RepRaise
    \/ RepFeaturesResponse
    \/ RepStartResponse
    \/ RepWaitEnter
    \/ RepWaitCheck
    \/ AggWaitCheckAuth
    \/ RepWaitCheckRaise
    \/ AggWaitCheckResponse
    \/ RepWaitDone
    \/ AggDownloadResponse
    \/ RepTick

SpecAggregate == RepInit /\ [][AggNext]_vars

(***************************************************************************)
(* Specification of the feature resolution: a single-product request up to *)
(* the return of get_features_for_product, for every feature list.         *)
(***************************************************************************)
FeatAuthResponses == {r \in AuthResponses : r.expires_in = NoKey}

FeatRequest ==
    /\ \E endpoint \in Endpoints \ {"all"} : REP_Request(Requester, endpoint, "json")
    /\ UNCHANGED <<now, dpVars, histVars, tmVars, upVars, pollVars>>

FeatBegin ==
    /\ repPc[Requester] = "features"
    /\ REP_Begin(Requester)
    /\ UNCHANGED <<now, dpVars, histVars>>

FeatAuth ==
    /\ repPc[Requester] = "features"
    /\ \E resp \in FeatAuthResponses : REP_Auth(Requester, resp)
    /\ UNCHANGED <<now, dpVars, histVars>>

FeatRaise ==
    /\ repPc[Requester] = "features"
    /\ REP_Raise(Requester)
    /\ UNCHANGED <<now, dpVars, histVars>>

FeatFeaturesResponse ==
    \E resp \in FeaturesResponses :
        REP_FeaturesResponse(Requester, resp) /\ UNCHANGED <<now, dpVars, histVars>>

FeatNext ==
    \/ FeatRequest
    \/ FeatBegin
    \/ FeatAuth
    \/ FeatRaise
    \/ FeatFeaturesResponse

SpecFeatures == RepInit /\ [][FeatNext]_vars

(***************************************************************************)
(* Specification of the lookups by job id: one request to                  *)
(* get_report_status or download_report, for every format, every declared  *)
(* content type and every payload.                                         *)
(***************************************************************************)
LookRequest ==
    /\ \E endpoint \in LookupEndpoints, uuid \in JobIds, final_format \in Formats :
          REP_LookupRequest(Requester, endpoint, uuid, final_format)
    /\ UNCHANGED <<now, dpVars, histVars, tmVars, upVars, pollVars>>

LookBegin == REP_LookupBegin(Requester) /\ UNCHANGED <<now, dpVars, histVars>>

LookAuth ==
    \E resp \in FeatAuthResponses : REP_LookupAuth(Requester, resp) /\ UNCHANGED <<now, dpVars, histVars>>

LookRaise == REP_LookupRaise(Requester) /\ UNCHANGED <<now, dpVars, histVars>>

\* The statuses drawn in this specification: in lower and in upper case, a
\* synonym, and a body without a status.
LookStatusResponses ==
    {r \in StatusResponses :
        r.kind = "ok" => r.body \in {StatusData(S_pending), StatusData(S_completed),
                                     StatusData(S_failed), StatusData(S_COMPLETED),
                                     StatusData(S_complete), NoStatusData}}

LookCheckResponse ==
    \E resp \in LookStatusResponses :
        /\ REP_CheckResponse(Requester, resp)
        /\ lookStatusData' = [lookStatusData EXCEPT ![Requester] = resp.body]
        /\ UNCHANGED <<now, dpVars, tmStale>>

LookFetchResponse ==
    \E resp \in DownloadResponses :
        REP_FetchResponse(Requester, resp) /\ UNCHANGED <<now, dpVars, histVars>>

LookNext ==
    \/ LookRequest
    \/ LookBegin
    \/ LookAuth
    \/ LookRaise
    \/ LookCheckResponse
    \/ LookFetchResponse

SpecLookup == RepInit /\ [][LookNext]_vars

(***************************************************************************)
(* Specification of concurrent polls: every coroutine of Procs runs its    *)
(* own wait_for_completion on the event loop, for its own job.  The        *)
(* upstream answers every request, a job may complete at any time, and     *)
(* time passes.  The event loop resumes every coroutine that is ready, so  *)
(* each step of a call is weakly fair.                                     *)
(***************************************************************************)
ConcTimeouts == {20}

ConcStep == 10

ConcAuthResponses ==
    {r \in AuthResponses : r.kind = "ok" /\ r.hasToken /\ r.expires_in = NoKey}

ConcInit ==
    /\ now = 0
    /\ TMInit
    /\ ~CredentialsMissing(credentials)
    /\ UPInit
    /\ WFCInit
    /\ REPInit
    /\ DPIdle

ConcEnter(p) ==
    /\ \E timeout \in ConcTimeouts : WFC_Enter(p, timeout, ConcStep)
    /\ UNCHANGED <<now, dpVars, histVars, repVars>>

ConcCheck(p) == WFC_Check(p) /\ UNCHANGED <<now, dpVars, histVars, repVars>>

ConcCheckAuth(p) ==
    \E resp \in ConcAuthResponses : WFC_CheckAuth(p, resp) /\ UNCHANGED <<now, dpVars, histVars, repVars>>

\* check_status returns what the upstream reports of the job of p.
ConcCheckResponse(p) ==
    /\ WFC_CheckResponse(p, [kind |-> "ok", code |-> 200,
                             body |-> StatusData(jobStatus[p])])
    /\ UNCHANGED <<now, dpVars, histVars, repVars>>

\* The job of p completes at the upstream; when p sleeps, early enough for
\* its next check to happen within the clock of this specification.
ConcJobCompletes(p) ==
    /\ jobStatus[p] = S_pending
    /\ pollPc[p] = "sleeping" =>
           /\ pollCheckedAt[p] + pollInterval[p] <= MaxConcTicks * ConcStep
           /\ pollCount[p] < MaxPolls
    /\ jobStatus' = [jobStatus EXCEPT ![p] = S_completed]
    /\ UNCHANGED <<now, dpVars, histVars, tmVars, upPc, upOp, pollVars, repVars>>

ConcTick ==
    /\ now + ConcStep <= MaxConcTicks * ConcStep
    /\ Tick(ConcStep)
    /\ UNCHANGED <<tmVars, upVars, pollVars, repVars, dpVars, histVars>>

ConcNext ==
    \/ \E p \in Procs : ConcEnter(p)
    \/ \E p \in Procs : ConcCheck(p)
    \/ \E p \in Procs : ConcCheckAuth(p)
    \/ \E p \in Procs : ConcCheckResponse(p)
    \/ \E p \in Procs : ConcJobCompletes(p)
    \/ ConcTick

ConcFairness ==
    /\ \A p \in Procs : WF_vars(ConcCheck(p))
    /\ \A p \in Procs : WF_vars(ConcCheckAuth(p))
    /\ \A p \in Procs : WF_vars(ConcCheckResponse(p))
    /\ WF_vars(ConcTick)

SpecConc == ConcInit /\ [][ConcNext]_vars /\ ConcFairness

(***************************************************************************)
(* Specification of filter_by_client_and_metric: one call, for every       *)
(* sequence of sample records and every target drawn.                      *)
(***************************************************************************)
K_client == <<"C", "l", "i", "e", "n", "t", " ", "I", "D">>

K_metric == <<"M", "e", "t", "r", "i", "c", " ", "v", "a", "l", "u", "e">>

K_other == <<"O", "t", "h", "e", "r">>

K_client_id == <<"c", "l", "i", "e", "n", "t", "_", "i", "d">>

K_metric_only == <<"M", "e", "t", "r", "i", "c">>

V_123 == <<"1", "2", "3">>

V_123_padded == <<" ", "1", "2", "3", " ">>

V_456 == <<"4", "5", "6">>

V_999 == <<"9", "9", "9">>

V_100 == <<"1", "0", "0">>

V_200 == <<"2", "0", "0">>

V_0 == <<"0">>

V_0_0 == <<" ", "0", ".", "0">>

V_abc == <<"a", "b", "c">>

V_data == <<"d", "a", "t", "a">>

ClientMetric(client, metric) ==
    <<Field(K_client, client), Field(K_metric, metric)>>

\* The three records of test_filter_by_client_and_metric.
Row_123_100 == ClientMetric(JStr(V_123), JStr(V_100))

Row_123_0 == ClientMetric(JStr(V_123), JStr(V_0))

Row_456_200 == ClientMetric(JStr(V_456), JStr(V_200))

\* A record with neither column.
Row_other == <<Field(K_other, JStr(V_data))>>

\* A record as csv.DictReader makes it of a line longer than the header.
Row_rest ==
    ClientMetric(JStr(V_123), JStr(V_100)) \o <<Field(RestKey, JList(1, <<"[", "'", "x", "'", "]">>))>>

FilterSamples ==
    {Row_123_100, Row_123_0, Row_456_200, Row_other, Row_rest,
     ClientMetric(JStr(V_123_padded), JStr(V_abc)),
     ClientMetric(JStr(V_123), JStr(<<>>)),
     ClientMetric(JStr(V_123), JNull),
     ClientMetric(JStr(V_123), JStr(V_0_0)),
     ClientMetric(JInt(123), JInt(5)),
     ClientMetric(JStr(V_123), JFloat(0)),
     ClientMetric(JStr(V_123), JBool(TRUE)),
     ClientMetric(JStr(V_123), JList(1, <<"[", "1", "]">>)),
     ClientMetric(JStr(V_123), JBigInt),
     <<Field(K_client, JStr(V_123))>>,
     <<Field(K_client_id, JStr(V_456)), Field(K_metric_only, JStr(V_100))>>}

\* The record sequences drawn: up to two samples, the three records of the
\* test, and a sample behind four or five records without the columns.
FilterRowSeqs ==
    {<<>>}
    \cup {<<r>> : r \in FilterSamples}
    \cup {<<r, s>> : r \in FilterSamples, s \in FilterSamples}
    \cup {<<Row_123_100, Row_123_0, Row_456_200>>}
    \cup {[i \in 1..4 |-> Row_other] \o <<r>> : r \in FilterSamples}
    \cup {[i \in 1..5 |-> Row_other] \o <<r>> : r \in FilterSamples}

FilterTargets == {V_123, V_123_padded, V_999}

FilterInit ==
    /\ now = 0
    /\ TMInit
    /\ ~CredentialsMissing(credentials)
    /\ UPInit
    /\ WFCInit
    /\ REPInit
    /\ dpIn \in [op : {"filter"}, rows : FilterRowSeqs, target : FilterTargets]
    /\ dpOut = NoOutput

FilterCall ==
    /\ dpIn.op = "filter"
    /\ dpOut = NoOutput
    /\ dpOut' = FilterByClientAndMetric(dpIn.rows, dpIn.target)
    /\ UNCHANGED <<now, tmVars, upVars, pollVars, repVars, dpIn, histVars>>

SpecFilter == FilterInit /\ [][FilterCall]_vars

(***************************************************************************)
(* Specification of normalize_rows: one call, for every raw_data drawn.    *)
(***************************************************************************)
K_key == <<"k", "e", "y">>

V_value == <<"v", "a", "l", "u", "e">>

E_record == DictElem(<<Field(K_key, JStr(V_value))>>)

E_record2 == DictElem(<<Field(K_other, JStr(V_data))>>)

E_row12 == ListElem(<<JInt(1), JInt(2)>>)

E_row34 == ListElem(<<JInt(3), JInt(4)>>)

E_row1 == ListElem(<<JInt(1)>>)

E_row123 == ListElem(<<JInt(1), JInt(2), JInt(3)>>)

E_a == ScalarElem(JStr(<<"a">>))

E_b == ScalarElem(JStr(<<"b">>))

E_5 == ScalarElem(JInt(5))

\* The top-level values drawn for "data", "headers", "rows" and "key";
\* <<>> stands for a field that is absent.
DataVals ==
    {<<>>, <<ListVal(<<E_record, E_record2>>)>>, <<ListVal(<<>>)>>,
     <<ListVal(<<E_record, E_5>>)>>, <<ScalarVal(JStr(V_value))>>}

HeadersVals ==
    {<<>>, <<ListVal(<<E_a, E_b>>)>>, <<ListVal(<<E_a, E_a>>)>>,
     <<ListVal(<<ListElem(<<JStr(<<"a">>)>>), E_b>>)>>, <<ScalarVal(JStr(V_value))>>}

RowsVals ==
    {<<>>, <<ListVal(<<E_row12, E_row34>>)>>, <<ListVal(<<E_row12, E_row1, E_row123>>)>>,
     <<ListVal(<<E_record, E_row34>>)>>, <<ListVal(<<E_row1>>)>>, <<ListVal(<<>>)>>}

KeyVals ==
    {<<>>, <<ListVal(<<E_record>>)>>, <<ListVal(<<E_row12>>)>>,
     <<ListVal(<<E_row12, E_5>>)>>, <<ScalarVal(JStr(V_value))>>}

\* The field of key `key`, when a value is drawn for it.
TopField(key, drawn) == [i \in DOMAIN drawn |-> Field(key, drawn[i])]

NormalizeInputs ==
    {RawDict(TopField(K_data, d) \o TopField(K_headers, h)
             \o TopField(K_rows, r) \o TopField(K_key, k)) :
        d \in DataVals, h \in HeadersVals, r \in RowsVals, k \in KeyVals}
    \cup {RawList(l) : l \in {<<>>, <<E_record, E_record2>>, <<E_record, E_5>>,
                              <<E_row12>>, <<E_5>>}}
    \cup {RawScalar(c) : c \in {JNull, JInt(5), JStr(V_value)}}

NormalizeInit ==
    /\ now = 0
    /\ TMInit
    /\ ~CredentialsMissing(credentials)
    /\ UPInit
    /\ WFCInit
    /\ REPInit
    /\ dpIn \in [op : {"normalize"}, raw_data : NormalizeInputs]
    /\ dpOut = NoOutput

NormalizeCall ==
    /\ dpIn.op = "normalize"
    /\ dpOut = NoOutput
    /\ dpOut' = DP_NormalizeRows(dpIn.raw_data)
    /\ UNCHANGED <<now, tmVars, upVars, pollVars, repVars, dpIn, histVars>>

SpecNormalize == NormalizeInit /\ [][NormalizeCall]_vars

(***************************************************************************)
(* Specification of the two record cleaners: one call of either, for       *)
(* every record drawn.                                                     *)
(***************************************************************************)
CleanValues ==
    {JInt(0), JFloat(0), JInt(100), JFloat(5), JStr(V_abc), JStr(<<>>), JStr(V_0),
     JNull, JBool(FALSE), JBool(TRUE), JList(0, <<"[", "]">>)}

CleanKeys == <<K_key, K_other, K_data>>

\* The records of at most three fields, the keys being distinct.
CleanRecords ==
    UNION {{[i \in 1..n |-> Field(CleanKeys[i], vals[i])] : vals \in [1..n -> CleanValues]} :
              n \in 0..Len(CleanKeys)}

CleanInit ==
    /\ now = 0
    /\ TMInit
    /\ ~CredentialsMissing(credentials)
    /\ UPInit
    /\ WFCInit
    /\ REPInit
    /\ dpIn \in [op : {"remove_zero_numeric_fields", "strip_nulls", "clean"},
                 record : CleanRecords]
    /\ dpOut = NoOutput

RemoveZeroCall ==
    /\ dpIn.op = "remove_zero_numeric_fields"
    /\ dpOut = NoOutput
    /\ dpOut' = RemoveZeroNumericFields(dpIn.record)
    /\ UNCHANGED <<now, tmVars, upVars, pollVars, repVars, dpIn, histVars>>

StripNullsCall ==
    /\ dpIn.op = "strip_nulls"
    /\ dpOut = NoOutput
    /\ dpOut' = StripNulls(dpIn.record)
    /\ UNCHANGED <<now, tmVars, upVars, pollVars, repVars, dpIn, histVars>>

\* The cleaning applied to a record, and applied again to its result.
CleanTwiceCall ==
    /\ dpIn.op = "clean"
    /\ dpOut = NoOutput
    /\ dpOut' = [op |-> "clean", kind |-> "return",
                 record |-> Clean(dpIn.record), again |-> Clean(Clean(dpIn.record))]
    /\ UNCHANGED <<now, tmVars, upVars, pollVars, repVars, dpIn, histVars>>

CleanNext == RemoveZeroCall \/ StripNullsCall \/ CleanTwiceCall

SpecClean == CleanInit /\ [][CleanNext]_vars

(***************************************************************************)
(* Specification of to_csv: one call for every record sequence drawn, and  *)
(* then the reading back of its text.                                      *)
(***************************************************************************)
K_a == <<"a">>

K_b == <<"b">>

K_B == <<"B">>

CsvRecords ==
    {<<>>,
     <<Field(K_a, JStr(<<"1">>))>>,
     <<Field(K_b, JStr(<<"x", ",", "y">>))>>,
     <<Field(K_a, JStr(<<"1">>)), Field(K_b, JStr(<<"2">>))>>,
     <<Field(K_b, JStr(<<"2">>)), Field(K_a, JInt(1))>>,
     <<Field(K_B, JStr(<<"x", "\"", "y">>))>>,
     <<Field(K_a, JNull), Field(K_b, JStr(<<"x">>))>>,
     <<Field(K_a, JStr(<<>>))>>,
     <<Field(K_a, JStr(<<"x", "\n", "y">>)), Field(K_b, JStr(<<"1">>))>>,
     <<Field(K_a, JStr(<<"x", "\f", "y">>)), Field(K_b, JStr(<<"1">>))>>,
     <<Field(K_a, JFloat(2))>>,
     <<Field(K_B, JBool(TRUE)), Field(K_data, JList(1, <<"[", "1", "]">>))>>,
     <<Field(K_a, JStr(<<"1">>)), Field(RestKey, JList(1, <<"[", "'", "x", "'", "]">>))>>}

\* Up to two of the records, and the two rows of the unit test.
CsvRowSeqs ==
    {<<>>} \cup {<<r>> : r \in CsvRecords} \cup {<<r, s>> : r, s \in CsvRecords}
    \cup {<<Row_123_100, Row_456_200>>}

CsvInit ==
    /\ now = 0
    /\ TMInit
    /\ ~CredentialsMissing(credentials)
    /\ UPInit
    /\ WFCInit
    /\ REPInit
    /\ dpIn \in [op : {"to_csv"}, rows : CsvRowSeqs]
    /\ dpOut = NoOutput

ToCsvCall ==
    /\ dpIn.op = "to_csv"
    /\ dpOut = NoOutput
    /\ dpOut' = ToCsv(dpIn.rows)
    /\ UNCHANGED <<now, tmVars, upVars, pollVars, repVars, dpIn, histVars>>

\* The text is read as download_report reads a CSV body.
ReadBackCall ==
    /\ dpOut.op = "to_csv"
    /\ dpOut.kind = "return"
    /\ dpOut' = [op |-> "DictReader", kind |-> "return",
                 rows |-> DictReader(SplitLines(dpOut.text))]
    /\ UNCHANGED <<now, tmVars, upVars, pollVars, repVars, dpIn, histVars>>

CsvNext == ToCsvCall \/ ReadBackCall

SpecCsv == CsvInit /\ [][CsvNext]_vars

(***************************************************************************)
(* Properties of the token cache (SpecToken).                              *)
(***************************************************************************)
Refreshing == {p \in Procs : tmPc[p] = "auth"}

\* A step in which process p calls get_token.
CallsGetToken(p) == tmPc[p] = "idle" /\ tmPc'[p] # "idle"

\* A step in which get_token returns a token to process p.
ReturnsToken(p) == tmPc[p] # "returned" /\ tmPc'[p] = "returned"

\* C3: every credential get_token returns, cached or fresh, expires more
\* than 60 seconds after the moment it is returned.
C3_ReturnedOutsideMargin ==
    [][\A p \in Procs :
          ReturnsToken(p) =>
              /\ cache'.token = tmResult'[p].token
              /\ cache'.expires_at > now' + SafetyMargin]_vars

\* C4: once a get_token has succeeded, a get_token call made while
\* now + 60 < expires_at returns the cached token and sends no
\* authentication request, and a call made when now + 60 >= expires_at sends
\* one.
C4_CachedWithinWindow ==
    [][\A p \in Procs :
          (tokensIssued > 0 /\ CallsGetToken(p)) =>
              IF now + SafetyMargin < cache.expires_at
              THEN /\ tmPc'[p] = "returned"
                   /\ tmResult'[p].token = cache.token
                   /\ tmResult'[p].token # NoToken
                   /\ authCalls' = authCalls
                   /\ cache' = cache
              ELSE /\ tmPc'[p] = "auth"
                   /\ authCalls' = authCalls + 1]_vars

\* C4 witness: one call was served from the cache of an earlier refresh while
\* another call, made after that token came within 60 s of expiry, is
\* re-authenticating.
C4_Witness ==
    \E p, q \in Procs :
        /\ tmPc[p] = "returned"
        /\ tmResult[p].detail = <<"Using cached Gcore token">>
        /\ tmPc[q] = "auth"
        /\ cache.token # NoToken
        /\ tmCurrentTime[q] + SafetyMargin >= cache.expires_at

\* C5: get_token invocations are serialized on the cache: two of them never
\* have an authentication request in flight at the same time.
C5_OneRefreshAtATime == Cardinality(Refreshing) <= 1

\* C10 as stated: after clear_cache the cache is empty, and the next
\* get_token, with no other get_token in progress, sends an authentication
\* request.
C10_ClearThenAuthenticate ==
    [][/\ cleared' # "no" => cache' = EmptyCache
       /\ \A p \in Procs :
             (cleared # "no" /\ Refreshing = {} /\ CallsGetToken(p)) =>
                 /\ tmPc'[p] = "auth"
                 /\ authCalls' = authCalls + 1]_vars

\* C10 amended: after clear_cache the cache is empty whatever it held, and
\* the next get_token, with no other get_token in progress, never returns the
\* token cached before: with credentials configured it sends an
\* authentication request, with credentials missing it raises the
\* configuration error (500) and sends none.
C10_ClearForcesReauthentication ==
    [][/\ cleared' # "no" => cache' = EmptyCache
       /\ \A p \in Procs :
             (cleared # "no" /\ Refreshing = {} /\ CallsGetToken(p)) =>
                 IF ~CredentialsMissing(credentials)
                 THEN /\ tmPc'[p] = "auth"
                      /\ authCalls' = authCalls + 1
                 ELSE /\ tmPc'[p] = "raised"
                      /\ tmResult'[p].status = 500
                      /\ authCalls' = authCalls]_vars

\* C10 witness: clear_cache emptied a cache that held a valid token, and the
\* get_token called after it is re-authenticating.
C10_Witness ==
    \E p \in Procs :
        /\ cleared = "valid"
        /\ cache = EmptyCache
        /\ tmPc[p] = "auth"
        /\ \A q \in Procs \ {p} : tmPc[q] = "idle"

(***************************************************************************)
(* Properties of the poll loop (SpecPoll).                                 *)
(***************************************************************************)
\* The statuses the poller is to treat as Completed and as Failed.
CompletedSynonyms ==
    {S_ready, S_finished, S_done, S_success, S_succeeded, S_available,
     S_completed, S_complete}

FailedSynonyms == {S_failed, S_error}

PollReturnedCompleted(p) ==
    pollPc[p] = "done" /\ pollResult[p] = PollReturn("completed")

PollRaised(p, status) ==
    /\ pollPc[p] = "done"
    /\ pollResult[p].kind = "HTTPException"
    /\ pollResult[p].status = status

\* The last status check returned just as the sleeps before it ended: no
\* time went by except in asyncio.sleep(poll_interval).
PolledAtInterval(p) ==
    pollCheckedAt[p] - pollStart[p] = pollSleeps[p] * pollInterval[p]

\* C1: when no status check returns a terminal status, the poller stops once
\* the elapsed time exceeds the timeout: it never suspends for another poll
\* after a check that returned later than start_time + timeout.
C1_StopsOnceTimeoutExceeded ==
    \A p \in Procs :
        pollPc[p] = "sleeping" =>
            pollCheckedAt[p] - pollStart[p] <= pollTimeout[p]

\* C2: a status sequence whose first terminal status is 'completed' at
\* position k, polled at interval I with timeout > k*I, makes the poller
\* return Completed at check k, after k - 1 suspensions, with no check after
\* it: every check that observes 'completed' returns there, a return follows
\* count - 1 sleeps, no timeout is raised at a check j with timeout > (j+1)*I
\* when polled at the interval, and a finished poller checks no more.
C2_CompletedAtFirstCompleted ==
    /\ [](\A p \in Procs :
            /\ pollStatus[p] = S_completed => PollReturnedCompleted(p)
            /\ PollReturnedCompleted(p) =>
                  /\ pollStatus[p] = S_completed
                  /\ pollSleeps[p] = pollCount[p] - 1
            /\ (PollRaised(p, 504) /\ PolledAtInterval(p)) =>
                  pollTimeout[p] <= (pollCount[p] + 1) * pollInterval[p])
    /\ [][\A p \in Procs :
             pollPc[p] = "done" =>
                 /\ pollPc'[p] = "done"
                 /\ pollCount'[p] = pollCount[p]
                 /\ upPc'[p] = "idle"]_vars

\* C2 witness: three checks, two suspensions of the interval, a timeout above
\* three intervals, and Completed returned at the third check.
C2_Witness ==
    \E p \in Procs :
        /\ PollReturnedCompleted(p)
        /\ pollCount[p] = 3
        /\ pollSleeps[p] = 2
        /\ PolledAtInterval(p)
        /\ pollTimeout[p] > 3 * pollInterval[p]

\* C8: a check that observes, in any letter case, one of 'ready', 'finished',
\* 'done', 'success', 'succeeded', 'available', 'completed', 'complete' makes
\* the poller return Completed at that check.
C8_SynonymsComplete ==
    \A p \in Procs :
        CurrentStatus(pollStatusData[p]) \in CompletedSynonyms =>
            PollReturnedCompleted(p)

\* C9: a check that observes 'failed' or 'error', in any letter case, makes
\* the poller stop there and raise the 502 error, which carries the upstream
\* message when the payload has one.
C9_FailedOrErrorRaises ==
    \A p \in Procs :
        CurrentStatus(pollStatusData[p]) \in FailedSynonyms =>
            /\ PollRaised(p, 502)
            /\ pollStatusData[p].hasMessage =>
                  \E i \in DOMAIN pollResult[p].detail :
                      pollResult[p].detail[i] = pollStatusData[p].message


(***************************************************************************)
(* Properties of the report functions.                                     *)
(***************************************************************************)
SingleProductRaised(p) ==
    /\ repPc[p] = "done"
    /\ repEndpoint[p] \in Endpoints \ {"all"}
    /\ repResult[p].kind = "HTTPException"

\* C6: in the single-product report function a failure raised by a pipeline
\* stage reaches the caller with its own class: a stage's 401 (rejected
\* credentials) as 401, its 502 (upstream unavailable, report failed) as 502,
\* its 504 (poll timeout) as 504.
C6_FailureClassUnchanged ==
    \A p \in Procs :
        (SingleProductRaised(p) /\ repError[p].kind = "HTTPException"
            /\ repError[p].status \in {401, 502, 504})
        => repResult[p].status = repError[p].status

\* What product i of the aggregate contributes to all_data.
Contribution(p, i) ==
    IF repOutcome[p][i] = "ok"
    THEN WithProduct(repFiltered[p][i], Products("all")[i])
    ELSE <<>>

RowsOfSucceeded(p) == Contribution(p, 1) \o Contribution(p, 2) \o Contribution(p, 3)

Aggregating(p) == repEndpoint[p] = "all"

IssuesUpstreamCall(p) == upPc[p] = "idle" /\ upPc'[p] = "busy"

\* The products before the current one are decided, the others are not.
EarlierDecidedLaterPending(p) ==
    \A i \in 1..3 :
        IF i < repIndex[p]
        THEN repOutcome[p][i] \in {"ok", "failed"}
        ELSE repOutcome[p][i] = "pending"

CallEnds(p) == Len(repLog'[p]) = Len(repLog[p]) + 1

CallJustOver(p) == repLog'[p][Len(repLog'[p])]

\* C11: whenever get_features, start_report, check_status or download_report
\* receives a 401 response, the credential cache is invalidated (it holds no
\* token once the call is over), so that the next get_token re-authenticates.
C11_InvalidatedOn401 ==
    [][\A p \in Procs :
          (CallEnds(p) /\ CallJustOver(p).kind = "status" /\ CallJustOver(p).code = 401)
          => cache' = EmptyCache]_vars


\* The calls of the current product's pipeline that are over.
CallsOver(p) ==
    {repLog[p][i] : i \in {j \in 1..Len(repLog[p]) : repLog[p][j].product = repIndex[p]}}

\* p calls get_features, start_report, check_status or download_report.
Requests(p, op) == IssuesUpstreamCall(p) /\ upOp'[p] = op

SingleProduct(p) == repEndpoint[p] \in Endpoints \ {"all"}

\* The rows of the current product are normalized, filtered and encoded.
Processes(p) ==
    /\ repOutcome[p][repIndex[p]] = "pending"
    /\ repOutcome'[p][repIndex[p]] = "ok"

\* C12: in a single-product pipeline start_report is requested only after
\* get_features returned, a status check only after start_report returned a
\* job id, download_report only for a job id that start_report returned and
\* for which a status check returned completed, and the rows are processed
\* only in the step in which download_report returned for that job id.
C12_StagesInOrder ==
    [][\A p \in Procs :
          SingleProduct(p) =>
            /\ Requests(p, "start") =>
                  \E c \in CallsOver(p) : c.op = "features" /\ c.exc = NoError
            /\ Requests(p, "status") =>
                  \E c \in CallsOver(p) :
                      c.op = "start" /\ c.exc = NoError /\ c.uuid = repUuid[p]
                      /\ c.uuid \in JobIds
            /\ Requests(p, "download") =>
                  /\ \E c \in CallsOver(p) :
                        c.op = "start" /\ c.exc = NoError /\ c.uuid = repUuid[p]
                  /\ \E c \in CallsOver(p) :
                        c.op = "status" /\ c.exc = NoError /\ c.uuid = repUuid[p]
                        /\ c.branch = "completed"
            /\ Processes(p) =>
                  /\ CallEnds(p)
                  /\ CallJustOver(p).op = "download"
                  /\ CallJustOver(p).exc = NoError
                  /\ CallJustOver(p).uuid = repUuid[p]]_vars

\* A single-product report is returned after a status check that found the
\* job pending and one that found it completed.
C12_Witness ==
    /\ SingleProduct(Requester)
    /\ repPc[Requester] = "done"
    /\ repResult[Requester].kind = "return"
    /\ Len(repLog[Requester]) = 5
    /\ repLog[Requester][3].branch = "waiting"
    /\ repLog[Requester][4].branch = "completed"
    /\ repLog[Requester][5].op = "download"


LastCallOver(p) == repLog[p][Len(repLog[p])]

\* C13: in a single-product pipeline get_features, start_report and
\* download_report are each called at most once, check_status is called
\* again only by the poll loop (the preceding call was a status check that
\* returned a status on which the loop sleeps), and once an upstream call has
\* raised no further upstream call is made.
C13_NoRetry ==
    [][\A p \in Procs :
          SingleProduct(p) =>
            /\ \A op \in UpstreamStages :
                  Requests(p, op) => \A c \in CallsOver(p) : c.op # op
            /\ (Requests(p, "status") /\ \E c \in CallsOver(p) : c.op = "status") =>
                  /\ LastCallOver(p).op = "status"
                  /\ LastCallOver(p).exc = NoError
                  /\ LastCallOver(p).branch \in {"waiting", "unknown"}
            /\ IssuesUpstreamCall(p) => \A c \in CallsOver(p) : c.exc = NoError]_vars

\* A single-product pipeline ended when its second status check failed.
C13_Witness ==
    /\ SingleProduct(Requester)
    /\ repPc[Requester] = "done"
    /\ repResult[Requester].kind = "HTTPException"
    /\ Len(repLog[Requester]) = 4
    /\ repLog[Requester][3].branch = "waiting"
    /\ repLog[Requester][4].op = "status"
    /\ repLog[Requester][4].kind = "status"
    /\ upPc[Requester] = "idle"


AllCallsOver(p) == {repLog[p][i] : i \in 1..Len(repLog[p])}

\* C14: each of get_features, start_report, check_status and download_report
\* raises the auth-rejected error (HTTP 401) on a 401 response and the
\* upstream-unavailable error (HTTP 502) on a transport failure, a request
\* timeout or any other non-2xx response.
C14_UpstreamFailuresClassified ==
    \A p \in Procs : \A c \in AllCallsOver(p) :
        /\ (c.kind = "status" /\ c.code = 401) =>
              (c.exc.kind = "HTTPException" /\ c.exc.status = 401)
        /\ (c.kind = "transport" \/ (c.kind = "status" /\ c.code # 401)) =>
              (c.exc.kind = "HTTPException" /\ c.exc.status = 502)


(***************************************************************************)
(* Properties of get_token's failures (SpecToken).                         *)
(***************************************************************************)
\* C15: when the authentication call has been answered, get_token returns
\* only for a success response that carries a token; a 401 response raises
\* the auth-rejected error (HTTP 401); any other non-success response, a
\* transport failure and a success response without a token raise the
\* upstream-unavailable error (HTTP 502).
C15_AuthFailuresClassified ==
    \A p \in Procs :
        tmAuthResp[p] # NoAuthResponse =>
            IF tmAuthResp[p].kind = "ok" /\ tmAuthResp[p].hasToken
            THEN tmPc[p] = "returned" /\ tmResult[p].kind = "return"
            ELSE /\ tmPc[p] = "raised"
                 /\ tmResult[p].kind = "HTTPException"
                 /\ tmResult[p].status =
                       IF tmAuthResp[p].kind = "status" /\ tmAuthResp[p].code = 401
                       THEN 401 ELSE 502

\* One get_token was answered 401 and raised, another got a success response
\* without a token and raised.
C15_Witness ==
    \E p, q \in Procs :
        /\ tmAuthResp[p].kind = "status" /\ tmAuthResp[p].code = 401
        /\ tmPc[p] = "raised"
        /\ tmAuthResp[q].kind = "ok" /\ ~tmAuthResp[q].hasToken
        /\ tmPc[q] = "raised"

\* C16: while the username or the password is empty, every get_token call
\* raises the configuration error (HTTP 500), no authentication request is
\* ever sent, no token is cached, and Settings.validate raises ValueError
\* when the application starts.
C16_MissingCredentialsFail ==
    (credentials.username = "" \/ credentials.password = "") =>
        /\ authCalls = 0
        /\ cache = EmptyCache
        /\ startup \in {"pending", "ValueError"}
        /\ \A p \in Procs :
              /\ tmPc[p] \in {"idle", "raised"}
              /\ tmPc[p] = "raised" =>
                    (tmResult[p].kind = "HTTPException" /\ tmResult[p].status = 500)

\* Only the password is empty: the startup failed and a get_token raised.
C16_Witness ==
    /\ credentials.username # ""
    /\ credentials.password = ""
    /\ startup = "ValueError"
    /\ \E p \in Procs : tmPc[p] = "raised" /\ tmResult[p].status = 500
    /\ authCalls = 0


(***************************************************************************)
(* Properties of the feature resolution (SpecFeatures).                    *)
(***************************************************************************)
FeaturesResolved(p) ==
    /\ repPc[p] = "start"
    /\ ~repFeaturesData[p].isNull

\* C17: whenever the upstream feature list is not empty,
\* get_features_for_product returns a non-empty sequence of ids.
C17_NonEmptyFeatureIds ==
    \A p \in Procs :
        (FeaturesResolved(p) /\ repFeaturesData[p].list # <<>>)
        => repFeatures[p] # <<>>


(***************************************************************************)
(* Properties of download_report and of the lookups (SpecLookup).          *)
(***************************************************************************)
\* C18: download_report parses by the content type the response declares,
\* whatever format was requested: a response declaring text/csv is parsed
\* as delimited text and a response declaring JSON is parsed as JSON.
C18_ParsedByDeclaredType ==
    \A p \in Procs :
        repParse[p].mode # "none" =>
            /\ Contains(repParse[p].content_type, L_text_csv) =>
                   repParse[p].mode = "csv"
            /\ repParse[p].content_type = T_json => repParse[p].mode = "json"

\* C20: in every response a report function returns, count is the number
\* of records that the response's data encodes.
C20_CountIsRecordCount ==
    \A p \in Procs :
        repResult[p].kind = "return" => repResult[p].count = Len(repResult[p].rows)

(***************************************************************************)
(* Properties of concurrent polls (SpecConc).                              *)
(***************************************************************************)
\* wait_for_completion of p is between its entry and its return or raise.
Polling(p) == pollPc[p] \in {"checking", "sleeping"}

\* The locals of the wait_for_completion of p.
PollLocals(p) ==
    <<pollPc[p], pollStart[p], pollCount[p], pollSleeps[p], pollCheckedAt[p],
      pollStatus[p], pollResult[p]>>

\* C19: two concurrent invocations poll independently.  A step of one
\* invocation leaves the locals of the other unchanged: an entry sets only
\* the own start time, to the clock of that moment, and a check counts only
\* in the own poll count.  And an invocation whose job is completed while it
\* polls returns "completed", also when the other one sleeps for a job that
\* never completes.
C19_IndependentPolls ==
    /\ [][\A p \in Procs :
             PollLocals(p)' # PollLocals(p) =>
                 /\ \A q \in Procs \ {p} : PollLocals(q)' = PollLocals(q)
                 /\ (pollPc[p] = "idle" /\ pollPc'[p] # "idle") =>
                        pollStart'[p] = now /\ pollCount'[p] = 1
                 /\ (pollPc[p] = "sleeping" /\ pollPc'[p] # "sleeping") =>
                        /\ pollCount'[p] = pollCount[p] + 1
                        /\ pollStart'[p] = pollStart[p]]_vars
    /\ \A p \in Procs :
           (Polling(p) /\ jobStatus[p] = S_completed) ~> PollReturnedCompleted(p)

\* One invocation has returned "completed" after a check it began while the
\* other one was asleep, and the other one still sleeps for a pending job.
C19_Witness ==
    \E p \in Procs, q \in Procs :
        /\ p # q
        /\ PollReturnedCompleted(p)
        /\ pollSleeps[p] > 0
        /\ pollPc[q] = "sleeping"
        /\ jobStatus[q] = S_pending
        /\ pollCheckedAt[q] < pollCheckedAt[p]
        /\ pollStart[p] # pollStart[q]
        /\ pollCount[p] # pollCount[q]

(***************************************************************************)
(* Properties of filter_by_client_and_metric (SpecFilter).                 *)
(***************************************************************************)
\* The call has returned with both columns detected.
FilteredOnColumns ==
    /\ dpOut.op = "filter"
    /\ dpOut.kind = "return"
    /\ dpOut.client_key # NoColumn
    /\ dpOut.metric_key # NoColumn

\* The record is in the result.
InResult(row) == \E j \in DOMAIN dpOut.rows : dpOut.rows[j] = row

\* The trimmed client column value of the record, as a string, is the
\* trimmed target.
IsOfTarget(row) ==
    Strip(Str(Get(row, dpOut.client_key, JStr(<<>>)))) = Strip(dpIn.target)

\* C21: with both columns detected, a record whose metric column value
\* parses as a number is kept if and only if its trimmed client column
\* value equals the trimmed target and that number is not zero, and no
\* record of another client is kept; of the three records of the test, for
\* target "123", exactly the first is kept.
C21_KeptIffClientAndNonZero ==
    FilteredOnColumns =>
        /\ \A i \in DOMAIN dpIn.rows :
               LET row == dpIn.rows[i]
                   number == FloatOf(Get(row, dpOut.metric_key, JInt(0))) IN
               /\ InResult(row) => IsOfTarget(row)
               /\ number.kind = "ok" =>
                      (InResult(row) <=> (IsOfTarget(row) /\ ~number.zero))
        /\ (dpIn.rows = <<Row_123_100, Row_123_0, Row_456_200>> /\ dpIn.target = V_123) =>
               dpOut.rows = <<Row_123_100>>

\* A padded client value was matched by a padded target, and a zero metric
\* was dropped next to a kept one.
C21_Witness ==
    /\ FilteredOnColumns
    /\ dpIn.target = V_123_padded
    /\ dpIn.rows = <<ClientMetric(JInt(123), JInt(5)), ClientMetric(JStr(V_123), JStr(V_0_0))>>
    /\ dpOut.rows = <<ClientMetric(JInt(123), JInt(5))>>

\* C22: with both columns detected, a record of the target client whose
\* metric column holds non-numeric text, the empty string or null is kept.
C22_UnparseableKept ==
    FilteredOnColumns =>
        \A i \in DOMAIN dpIn.rows :
            LET row == dpIn.rows[i]
                metric_value == Get(row, dpOut.metric_key, JInt(0)) IN
            (/\ IsOfTarget(row)
             /\ dpOut.metric_key \in Keys(row)
             /\ metric_value.kind \in {"str", "null"}
             /\ FloatOf(metric_value).kind # "ok") => InResult(row)

\* The field names of the first five records.
ScannedKeys ==
    UNION {Keys(dpIn.rows[i]) : i \in {j \in DOMAIN dpIn.rows : j <= 5}}

\* C23: when no field name of the first 5 records contains both "client"
\* and "id", or none contains both "metric" and "value", the call returns
\* its input unchanged, whatever the target.
C23_FailOpen ==
    (/\ dpOut.op = "filter"
     /\ dpOut.kind = "return"
     /\ \/ ~\E k \in ScannedKeys :
               Contains(Lower(k), L_client) /\ Contains(Lower(k), L_id)
        \/ ~\E k \in ScannedKeys :
               Contains(Lower(k), L_metric) /\ Contains(Lower(k), L_value))
        => dpOut.rows = dpIn.rows

\* The columns are in the sixth record only: for a target that no record has,
\* the input is returned whole.  And a record with a "Metric" column and a
\* client of another target is returned.
C23_Witness ==
    /\ dpOut.op = "filter"
    /\ dpOut.kind = "return"
    /\ \/ /\ Len(dpIn.rows) = 6
          /\ dpIn.rows[6] = Row_123_100
          /\ dpIn.target = V_999
       \/ /\ Len(dpIn.rows) = 1
          /\ K_metric_only \in Keys(dpIn.rows[1])
          /\ dpIn.target = V_999
    /\ dpOut.rows = dpIn.rows

\* s is t with some elements left out.
RECURSIVE IsSubsequence(_, _)
IsSubsequence(s, t) ==
    IF s = <<>> THEN TRUE
    ELSE IF t = <<>> THEN FALSE
    ELSE IF Head(s) = Head(t) THEN IsSubsequence(Tail(s), Tail(t))
    ELSE IsSubsequence(s, Tail(t))

\* C24: for every record sequence and every target the call returns
\* without error a subsequence of its input, which is empty when both
\* columns are detected and no record is of the target client.
C24_ReturnsSubsequence ==
    dpOut.op = "filter" =>
        /\ dpOut.kind = "return"
        /\ IsSubsequence(dpOut.rows, dpIn.rows)
        /\ (/\ dpOut.client_key # NoColumn
            /\ dpOut.metric_key # NoColumn
            /\ \A i \in DOMAIN dpIn.rows : ~IsOfTarget(dpIn.rows[i]))
               => dpOut.rows = <<>>

(***************************************************************************)
(* Properties of normalize_rows (SpecNormalize).                           *)
(***************************************************************************)
\* The value of a top-level field of the input, None when it is absent.
TopValue(key) == Get(dpIn.raw_data.fields, key, AbsentVal)

\* The input is a mapping whose "data" is a list of mappings.
InputIsDataWrapper ==
    /\ dpIn.raw_data.kind = "dict"
    /\ TopValue(K_data).kind = "list"
    /\ \A i \in DOMAIN TopValue(K_data).elems : TopValue(K_data).elems[i].kind = "dict"

\* The input is a mapping with a "headers" list of distinct names and a
\* "rows" list of lists, and is no "data" wrapper.
InputIsTable ==
    /\ dpIn.raw_data.kind = "dict"
    /\ ~InputIsDataWrapper
    /\ TopValue(K_headers).kind = "list"
    /\ TopValue(K_rows).kind = "list"
    /\ \A i \in DOMAIN TopValue(K_headers).elems :
           /\ TopValue(K_headers).elems[i].kind = "scalar"
           /\ \A j \in DOMAIN TopValue(K_headers).elems :
                  TopValue(K_headers).elems[i] = TopValue(K_headers).elems[j] => i = j
    /\ \A i \in DOMAIN TopValue(K_rows).elems : TopValue(K_rows).elems[i].kind = "list"

\* C25: for a "headers" and a "rows" sequence the result has one record per
\* row, in row order, and record i maps headers[j] to rows[i][j] for every j
\* within both the headers and the row, and has no other field.
C25_OneRecordPerRow ==
    (dpOut.op = "normalize" /\ InputIsTable) =>
        LET headers == TopValue(K_headers).elems
            rows_data == TopValue(K_rows).elems IN
        /\ dpOut.kind = "return"
        /\ Len(dpOut.rows) = Len(rows_data)
        /\ \A i \in DOMAIN rows_data :
               LET width == IF Len(headers) < Len(rows_data[i].cells)
                            THEN Len(headers) ELSE Len(rows_data[i].cells) IN
               /\ Keys(dpOut.rows[i]) = {headers[j].cells[1].text : j \in 1..width}
               /\ \A j \in 1..width :
                      Get(dpOut.rows[i], headers[j].cells[1].text, JNull)
                          = rows_data[i].cells[j]

\* The input has one of the shapes normalize_rows knows.
InputRecognized ==
    \/ dpIn.raw_data.kind = "list"
       /\ \A i \in DOMAIN dpIn.raw_data.elems : dpIn.raw_data.elems[i].kind = "dict"
    \/ dpIn.raw_data.kind = "dict"
       /\ \E i \in DOMAIN dpIn.raw_data.fields : dpIn.raw_data.fields[i].val.kind = "list"

\* C26: normalize_rows never fails, and returns the empty sequence for an
\* input of none of the shapes it knows.
C26_NeverFails ==
    dpOut.op = "normalize" =>
        /\ dpOut.kind = "return"
        /\ ~InputRecognized => dpOut.rows = <<>>

\* C27: a single mapping without a list-valued field is returned as a
\* one-element sequence holding that mapping.
C27_SingleMappingWrapped ==
    (/\ dpOut.op = "normalize"
     /\ dpIn.raw_data.kind = "dict"
     /\ dpIn.raw_data.fields # <<>>
     /\ \A i \in DOMAIN dpIn.raw_data.fields : dpIn.raw_data.fields[i].val.kind = "scalar")
        => /\ dpOut.kind = "return"
           /\ dpOut.rows =
                  <<[i \in DOMAIN dpIn.raw_data.fields |->
                        Field(dpIn.raw_data.fields[i].key,
                              dpIn.raw_data.fields[i].val.elems[1].cells[1])]>>

\* C28: a sequence of mappings, the empty one included, is returned
\* unchanged, and so is the "data" sequence of mappings of a mapping, also
\* when the mapping has "headers", "rows" or other list-valued fields.
C28_ListAndDataFirst ==
    dpOut.op = "normalize" =>
        /\ (/\ dpIn.raw_data.kind = "list"
            /\ \A i \in DOMAIN dpIn.raw_data.elems : dpIn.raw_data.elems[i].kind = "dict")
               => /\ dpOut.kind = "return"
                  /\ dpOut.rows = [i \in DOMAIN dpIn.raw_data.elems |->
                                      dpIn.raw_data.elems[i].fields]
        /\ InputIsDataWrapper
               => /\ dpOut.kind = "return"
                  /\ dpOut.rows = [i \in DOMAIN TopValue(K_data).elems |->
                                      TopValue(K_data).elems[i].fields]

\* A mapping with "data", "headers", "rows" and one more list was
\* normalized to its two "data" records.
C28_Witness ==
    /\ dpOut.op = "normalize"
    /\ InputIsDataWrapper
    /\ TopValue(K_headers).kind = "list"
    /\ TopValue(K_rows) = ListVal(<<E_row12, E_row34>>)
    /\ TopValue(K_key).kind = "list"
    /\ dpOut.rows = <<E_record.fields, E_record2.fields>>

(***************************************************************************)
(* Properties of the record cleaners (SpecClean).                          *)
(***************************************************************************)
\* C29: remove_zero_numeric_fields returns exactly the fields whose value is
\* not an integer zero or a floating-point zero, unchanged and in order;
\* strings, null, booleans and nested structures pass through.
C29_OnlyNumericZeroDropped ==
    dpOut.op = "remove_zero_numeric_fields" =>
        /\ dpOut.kind = "return"
        /\ dpOut.record =
               SelectSeq(dpIn.record,
                         LAMBDA field : ~(field.val.kind \in {"int", "float"}
                                          /\ field.val.num = 0))

\* C30: strip_nulls returns exactly the fields whose value is neither null
\* nor the empty string, unchanged and in order; a field whose value is zero
\* is preserved.
C30_OnlyNullAndEmptyDropped ==
    dpOut.op = "strip_nulls" =>
        /\ dpOut.kind = "return"
        /\ dpOut.record =
               SelectSeq(dpIn.record,
                         LAMBDA field : field.val # JNull /\ field.val # JStr(<<>>))
        /\ \A i \in DOMAIN dpIn.record :
               dpIn.record[i].val \in {JInt(0), JFloat(0)}
                   => \E j \in DOMAIN dpOut.record : dpOut.record[j] = dpIn.record[i]

\* strip_nulls took a zero, an empty string and a null and returned the zero.
C30_Witness ==
    /\ dpOut.op = "strip_nulls"
    /\ dpIn.record = <<Field(K_key, JInt(0)), Field(K_other, JStr(<<>>)), Field(K_data, JNull)>>
    /\ dpOut.record = <<Field(K_key, JInt(0))>>

\* C31: cleaning a record twice (remove_zero_numeric_fields then strip_nulls,
\* and both again) gives the record that cleaning it once gives.
C31_CleanIdempotent ==
    dpOut.op = "clean" => dpOut.kind = "return" /\ dpOut.again = dpOut.record

\* A record with a zero, an empty string and a text was cleaned to the text
\* alone, and cleaning that again changed nothing.
C31_Witness ==
    /\ dpOut.op = "clean"
    /\ dpIn.record = <<Field(K_key, JInt(0)), Field(K_other, JStr(<<>>)),
                       Field(K_data, JStr(V_abc))>>
    /\ dpOut.record = <<Field(K_data, JStr(V_abc))>>
    /\ dpOut.again = dpOut.record

(***************************************************************************)
(* Properties of to_csv (SpecCsv).                                         *)
(***************************************************************************)
\* The field names of the records are strings.
NamesAreStrings == \A i \in DOMAIN dpIn.rows : RestKey \notin Keys(dpIn.rows[i])

\* C32: of a non-empty sequence of records to_csv writes a header row that
\* is the union of the field names in ascending order, then one row per
\* record in input order with every value under its own column and an empty
\* cell where the record lacks the field; of the empty sequence it returns
\* the empty string.
C32_HeaderAndRows ==
    (dpOut.op = "to_csv" /\ NamesAreStrings) =>
        /\ dpOut.kind = "return"
        /\ dpIn.rows = <<>> => dpOut.text = <<>>
        /\ dpIn.rows # <<>> =>
               LET header == dpOut.fieldnames IN
               /\ {header[j] : j \in DOMAIN header}
                      = UNION {{dpIn.rows[i][k].key : k \in DOMAIN dpIn.rows[i]} :
                                  i \in DOMAIN dpIn.rows}
               /\ \A j, k \in DOMAIN header : j < k => LexLess(header[j], header[k])
               /\ dpOut.text =
                      CsvLine(header)
                      \o CsvLines([i \in DOMAIN dpIn.rows |->
                                     [j \in DOMAIN header |->
                                         IF \E k \in DOMAIN dpIn.rows[i] :
                                                dpIn.rows[i][k].key = header[j]
                                         THEN CellText(Get(dpIn.rows[i], header[j], JNull))
                                         ELSE <<>>]])

\* Two records of different fields, the later field name first, were written
\* under the header a,b with an empty cell each.
C32_Witness ==
    /\ dpOut.op = "to_csv"
    /\ dpIn.rows = <<<<Field(K_b, JStr(<<"x", ",", "y">>))>>, <<Field(K_a, JStr(<<"1">>))>>>>
    /\ dpOut.fieldnames = <<K_a, K_b>>
    /\ dpOut.text = <<"a", ",", "b", "\r", "\n",
                      ",", "\"", "x", ",", "y", "\"", "\r", "\n",
                      "1", ",", "\r", "\n">>

\* The value a cell read back is to hold for an original value: the string
\* itself, the text of a number or boolean, and the empty cell for null.
ReadBackOf(value) == JStr(CellText(value))

\* C33: reading the text of to_csv as delimited text gives back, for every
\* record and every field it had, the original scalar value.
C33_RoundTrip ==
    (dpOut.op = "DictReader" /\ NamesAreStrings) =>
        \A i \in DOMAIN dpIn.rows : \A k \in DOMAIN dpIn.rows[i] :
            dpIn.rows[i][k].val.kind \in {"str", "int", "float", "bool", "null"} =>
                /\ i <= Len(dpOut.rows)
                /\ dpIn.rows[i][k].key \in Keys(dpOut.rows[i])
                /\ Get(dpOut.rows[i], dpIn.rows[i][k].key, JNull)
                       = ReadBackOf(dpIn.rows[i][k].val)

(***************************************************************************)
(* The order of status and timeout in the poll loop (SpecPoll).            *)
(***************************************************************************)
\* C37: wait_for_completion checks the status at least once, also with
\* timeout 0, and looks at the timeout only after a check that returned
\* 'inprogress' or 'pending': the timeout error follows such a check, a
\* check that returns 'completed' gives success and one that returns
\* 'failed' gives the failure error, however late the check is.
C37_StatusBeforeTimeout ==
    \A p \in Procs :
        /\ pollPc[p] # "idle" => pollCount[p] >= 1
        /\ (pollPc[p] = "done" /\ pollResult[p].kind = "HTTPException"
            /\ pollResult[p].status = 504)
               => /\ pollStatus[p] \in {S_inprogress, S_pending}
                  /\ pollCheckedAt[p] - pollStart[p] > pollTimeout[p]
        /\ pollStatus[p] = S_completed
               => /\ pollPc[p] = "done"
                  /\ pollResult[p] = [kind |-> "return", status |-> 0,
                                      detail |-> <<"completed">>]
        /\ pollStatus[p] = S_failed
               => /\ pollPc[p] = "done"
                  /\ pollResult[p].kind = "HTTPException"
                  /\ pollResult[p].status = 502

\* With timeout 0 the first check returned 'completed' after time had
\* passed, and the call returned "completed".
C37_Witness ==
    \E p \in Procs :
        /\ pollTimeout[p] = 0
        /\ pollCount[p] = 1
        /\ pollCheckedAt[p] - pollStart[p] > pollTimeout[p]
        /\ pollStatus[p] = S_completed
        /\ pollResult[p] = PollReturn("completed")

(***************************************************************************)
(* Properties of racing refreshes (SpecRace).                              *)
(***************************************************************************)
\* C34: whatever the interleaving, a credential written to the cache is the
\* token and the expiry of one and the same successful authentication
\* response, that of the get_token call completing in that step; the token
\* of one response is never stored with the expiry of another.
C34_TokenWithItsExpiry ==
    [][(cache' # cache /\ cache'.token # NoToken) =>
          \E p \in Procs :
              /\ tmPc[p] = "auth"
              /\ tmPc'[p] = "returned"
              /\ cache'.token = tmResult'[p].token
              /\ cache'.expires_at =
                     tmCurrentTime[p]
                     + (IF tmAuthResp'[p].expires_in = NoKey THEN CacheDuration
                        ELSE tmAuthResp'[p].expires_in)]_vars

\* C35: a get_token call that fails leaves the cached token and expiry as
\* they were, and the cache changes only when a refresh succeeds or when
\* clear_cache runs.
C35_FailureLeavesCache ==
    [][/\ \A p \in Procs : (tmPc[p] # "raised" /\ tmPc'[p] = "raised") => cache' = cache
       /\ cache' # cache =>
              \/ cache' = [token |-> NoToken, expires_at |-> 0]
              \/ \E p \in Procs : tmPc[p] = "auth" /\ tmPc'[p] = "returned"]_vars

\* C36: the credential of an authentication request that was in flight when
\* clear_cache ran is not stored in the cache, and so is not served to a
\* later get_token call either.
C36_NoCredentialFromBeforeClear ==
    [][\A p \in Procs :
          (tmStale[p] /\ tmPc[p] = "auth" /\ tmPc'[p] # "auth") => cache' = cache]_vars

(***************************************************************************)
(* The response of the aggregate report (SpecAggregate).                   *)
(***************************************************************************)
\* C38: the aggregate report answers every combination of per-product
\* outcomes with the job id 'aggregated' and the status 'completed'; its
\* count is the number of rows collected from the products that succeeded,
\* and when all three products failed the count is 0 and the payload empty.
C38_AggregateAlwaysCompleted ==
    \A p \in Procs :
        (Aggregating(p) /\ repPc[p] = "done") =>
            /\ repResult[p].kind = "return"
            /\ repResult[p].uuid = "aggregated"
            /\ repResult[p].reportStatus = "completed"
            /\ repResult[p].count = Len(RowsOfSucceeded(p))
            /\ (\A i \in 1..3 : repOutcome[p][i] = "failed") =>
                   /\ repResult[p].count = 0
                   /\ repResult[p].rows = <<>>

(***************************************************************************)
(* The download of the status lookup (SpecLookup).                         *)
(***************************************************************************)
\* check_status returned status_data to the get_report_status of p.
CheckReturned(p) ==
    \E i \in DOMAIN repLog[p] : repLog[p][i].op = "status" /\ repLog[p][i].kind = "ok"

\* The get_report_status of p has reached its call of download_report.
DownloadCalled(p) ==
    \/ repPc[p] = "fetch"
    \/ \E i \in DOMAIN repLog[p] : repLog[p][i].op = "download"

\* C39 as stated: get_report_status requests the download only when the
\* status that the check returned is exactly 'completed'; for every other
\* status it makes no download call and returns that status with count 0
\* and an empty payload.
C39_DownloadOnlyOnExactlyCompleted ==
    \A p \in Procs :
        repEndpoint[p] = "status" =>
            /\ DownloadCalled(p) =>
                   /\ CheckReturned(p)
                   /\ StatusOf(lookStatusData[p]) = S_completed
            /\ (CheckReturned(p) /\ StatusOf(lookStatusData[p]) # S_completed) =>
                   /\ ~DownloadCalled(p)
                   /\ repPc[p] = "done"
                   /\ repResult[p] =
                          ReportResponse(repUuid[p], StatusOf(lookStatusData[p]), 0,
                                         <<>>, repFormat[p])

\* C39, amended: get_report_status requests the download only when the
\* status that the check returned is 'completed' in some letter case, and no
\* synonym of it; for every other status, and for a body without a status,
\* it makes no download call and returns the status in lower case with
\* count 0 and an empty payload.
C39_DownloadOnlyOnCompleted ==
    \A p \in Procs :
        repEndpoint[p] = "status" =>
            /\ DownloadCalled(p) =>
                   /\ CheckReturned(p)
                   /\ Lower(StatusOf(lookStatusData[p])) = S_completed
            /\ (CheckReturned(p) /\ Lower(StatusOf(lookStatusData[p])) # S_completed) =>
                   /\ ~DownloadCalled(p)
                   /\ repPc[p] = "done"
                   /\ repResult[p] =
                          ReportResponse(repUuid[p], Lower(StatusOf(lookStatusData[p])),
                                         0, <<>>, repFormat[p])

\* The check returned 'COMPLETED' and the download that followed is over.
C39_Witness ==
    /\ repEndpoint[Requester] = "status"
    /\ CheckReturned(Requester)
    /\ StatusOf(lookStatusData[Requester]) = S_COMPLETED
    /\ \E i \in DOMAIN repLog[Requester] :
          repLog[Requester][i].op = "download" /\ repLog[Requester][i].kind = "ok"
    /\ repResult[Requester].kind = "return"
    /\ repResult[Requester].reportStatus = S_completed
====
